---------------------------- MODULE Spec2Model ----------------------------
(***************************************************************************)
(* Die-per-wafer placement and validation engine of deanyou/dpw.           *)
(*                                                                         *)
(* Two engines are modelled side by side:                                  *)
(*   - DieCalculator (src/dpw/calculator.py), with enable_optimizations    *)
(*     True (SpatialOptimizer pre-filter) and False (traditional range);   *)
(*   - OptimizedDieCalculator (src/src/dpw/optimized_calculator.py), with  *)
(*     its quadrant-symmetric path and its full-range notch path.          *)
(*                                                                         *)
(* Units.  The code works in float millimetres.  The model holds every     *)
(* length as an integer number of half-millimetres, so that width / 2.0    *)
(* of a die whose sizes are whole millimetres stays an integer and every   *)
(* comparison sqrt(x*x + y*y) <= r is decided exactly as x*x + y*y <= r*r. *)
(* Square roots that the code keeps as values (circle half-width in the    *)
(* strip integration, chord width) are taken in fixed point.  The one      *)
(* float computation whose rounding decides a result, the yield product    *)
(* int(valid_dies * (yield_percentage / 100.0)), is modelled bit-exactly   *)
(* as IEEE-754 binary64 arithmetic.                                        *)
(***************************************************************************)
EXTENDS Integers, Sequences, FiniteSets, TLC

VARIABLES
    args,   \* the parameter bundle handed to calculate_dies_per_wafer
    std,    \* outcome of DieCalculator(enable_optimizations=True)
    trad,   \* outcome of DieCalculator(enable_optimizations=False)
    opt,    \* outcome of OptimizedDieCalculator()
    cmp,    \* outcomes of DieCalculator.compare_methods, by enable_optimizations
    cache,  \* PerformanceCache.distance_cache of one shared DieCalculator:
            \* its keys in insertion order
    thr,    \* the threads calling calculate_dies_per_wafer on that instance
    calc    \* a DieCalculator or PerformanceCache that is called repeatedly,
            \* one call after the other

vars == <<args, std, trad, opt, cmp, cache, thr, calc>>

(***************************************************************************)
(* Enumerations                                                            *)
(***************************************************************************)
CENTER_BASED == "center"
CORNER_BASED == "corner"
AREA_BASED == "area"
STRICT == "strict"
ValidationMethod == {CENTER_BASED, CORNER_BASED, AREA_BASED, STRICT}

NONE == "none"
V_NOTCH_90 == "v90"
FLAT == "flat"
NotchType == {NONE, V_NOTCH_90, FLAT}

(***************************************************************************)
(* Arithmetic helpers                                                      *)
(***************************************************************************)
Abs(x) == IF x < 0 THEN -x ELSE x
Max2(a, b) == IF a >= b THEN a ELSE b
Min2(a, b) == IF a <= b THEN a ELSE b

\* Python int(a / b) on floats: truncation toward zero (b # 0).
TruncDiv(a, b) ==
    IF (a >= 0) = (b > 0) THEN Abs(a) \div Abs(b) ELSE -(Abs(a) \div Abs(b))

\* Python a // 2 on ints: floor division.
FloorHalf(a) == a \div 2

\* range(lo, hi) as a sequence
PyRange(lo, hi) == [k \in 1..Max2(hi - lo, 0) |-> lo + k - 1]

\* Newton's iteration downwards from x >= floor(sqrt(n)), x > 0
RECURSIVE ISqrtFrom(_, _)
ISqrtFrom(n, x) ==
    LET y == (x + n \div x) \div 2
    IN  IF y >= x THEN x ELSE ISqrtFrom(n, y)

\* floor(math.sqrt(n)) for 0 <= n <= bound * bound
ISqrt(n, bound) == IF n = 0 THEN 0 ELSE ISqrtFrom(n, bound)

\* sums and concatenations split their range in halves
RECURSIVE SumRange(_, _, _)
SumRange(s, lo, hi) ==
    IF lo > hi THEN 0
    ELSE IF lo = hi THEN s[lo]
    ELSE LET mid == (lo + hi) \div 2
         IN  SumRange(s, lo, mid) + SumRange(s, mid + 1, hi)

SumSeq(s) == SumRange(s, 1, Len(s))

RECURSIVE FlattenRange(_, _, _)
FlattenRange(ss, lo, hi) ==
    IF lo > hi THEN << >>
    ELSE IF lo = hi THEN ss[lo]
    ELSE LET mid == (lo + hi) \div 2
         IN  FlattenRange(ss, lo, mid) \o FlattenRange(ss, mid + 1, hi)

Flatten(ss) == FlattenRange(ss, 1, Len(ss))

(***************************************************************************)
(* Units: one length unit is half a millimetre.                            *)
(***************************************************************************)
UmPerMm == 1000
\* x_um / 1000.0 millimetres, in half-millimetres
LenOfUm(um) == (2 * um) \div UmPerMm
\* x_mm millimetres, in half-millimetres
LenOfMm(mm) == 2 * mm


(***************************************************************************)
(* WaferGeometry (src/dpw/calculator.py)                                   *)
(***************************************************************************)
Ok(v) == [ok |-> TRUE, value |-> v]
Raise(type, msgs) == [ok |-> FALSE, type |-> type, messages |-> msgs]

\* WaferGeometry._calculate_notch_area: an Ok area, or the ValueError that
\* math.sqrt raises on a negative argument.  The chord width is kept in
\* fixed point (floor of the square root).
_calculate_notch_area(notch_type, wafer_radius, notch_depth) ==
    IF notch_type = NONE THEN Ok(0)
    ELSE IF notch_type = V_NOTCH_90 THEN Ok(notch_depth * notch_depth)
    ELSE IF notch_type = FLAT THEN
        LET r == wafer_radius
            d == notch_depth
        IN  IF d >= r THEN Ok(0)
            ELSE IF 2 * r * d - d * d < 0
                 THEN Raise("ValueError", <<"math domain error">>)
                 ELSE Ok(2 * ISqrt(2 * r * d - d * d, r) * d)
    ELSE Ok(0)

\* WaferGeometry.__init__: the geometry record, or the first error raised.
WaferGeometry(wafer_diameter_mm, edge_exclusion_mm, notch_type, notch_depth_mm) ==
    LET wafer_radius     == LenOfMm(wafer_diameter_mm) \div 2
        edge_exclusion   == LenOfMm(edge_exclusion_mm)
        effective_radius == wafer_radius - edge_exclusion
        notch_depth      == LenOfMm(notch_depth_mm)
        notch_area       == _calculate_notch_area(notch_type, wafer_radius, notch_depth)
    IN  IF ~notch_area.ok THEN notch_area
        ELSE IF effective_radius <= 0
             THEN Raise("ValueError", <<"Effective radius must be positive">>)
        ELSE IF notch_depth < 0
             THEN Raise("ValueError", <<"Notch depth must be non-negative">>)
        ELSE IF notch_depth >= wafer_radius
             THEN Raise("ValueError", <<"Notch depth cannot exceed wafer radius">>)
        ELSE Ok([wafer_radius     |-> wafer_radius,
                 edge_exclusion   |-> edge_exclusion,
                 effective_radius |-> effective_radius,
                 notch_type       |-> notch_type,
                 notch_depth      |-> notch_depth,
                 notch_area       |-> notch_area.value])

\* sqrt(x*x + y*y) <= effective_radius, decided on the squares
\* a point test with an exclusive boundary
PointStrictlyInside(g, x, y) ==
    x * x + y * y < g.effective_radius * g.effective_radius

is_point_in_wafer(g, x, y) ==
    x * x + y * y <= g.effective_radius * g.effective_radius

\* v <= sqrt(q) and v >= -sqrt(q), for q >= 0, decided on the squares
LeRoot(v, q) == v <= 0 \/ v * v <= q
GeNegRoot(v, q) == v >= 0 \/ v * v <= q

\* width / 2.0 (widths are whole millimetres, an even number of units)
Half(w) == w \div 2

\* a notch test that places the notch at the effective radius instead of the
\* wafer radius
NotchAtEffectiveRadius(g, center_x, center_y, width, height) ==
    LET rect_left   == center_x - (width \div 2)
        rect_right  == center_x + (width \div 2)
        rect_bottom == center_y + (height \div 2)
        r           == g.effective_radius
        d           == g.notch_depth
        notch_y     == r - d
    IN  IF g.notch_type = NONE THEN FALSE
        ELSE IF g.notch_type = V_NOTCH_90 THEN
            /\ rect_bottom >= notch_y
            /\ rect_left <= d
            /\ rect_right >= -d
            /\ rect_bottom <= r
        ELSE IF d >= r \/ d <= 0 THEN FALSE
        ELSE /\ rect_bottom >= notch_y
             /\ (rect_left <= 0 \/ rect_left * rect_left <= 2 * r * d - d * d)
             /\ (rect_right >= 0 \/ rect_right * rect_right <= 2 * r * d - d * d)
             /\ rect_bottom <= r

\* a slip of the notch test: the depth of the notch is measured from the
\* effective radius, so that the notch reaches into the usable area whatever
\* the edge exclusion
NotchDepthBelowEffectiveRadius(g, center_x, center_y, width, height) ==
    LET rect_left   == center_x - Half(width)
        rect_right  == center_x + Half(width)
        rect_bottom == center_y + Half(height)
        notch_y     == g.effective_radius - g.notch_depth
        r           == g.wafer_radius
        d           == g.notch_depth
    IN  IF g.notch_type = NONE THEN FALSE
        ELSE IF g.notch_type = V_NOTCH_90 THEN
            /\ rect_bottom >= notch_y
            /\ rect_left <= d
            /\ rect_right >= -d
            /\ rect_bottom <= g.wafer_radius
        ELSE IF g.notch_type = FLAT THEN
            IF d >= r \/ d <= 0 THEN FALSE
            ELSE /\ rect_bottom >= notch_y
                 /\ LeRoot(rect_left, 2 * r * d - d * d)
                 /\ GeNegRoot(rect_right, 2 * r * d - d * d)
                 /\ rect_bottom <= g.wafer_radius
        ELSE FALSE

\* WaferGeometry._is_rectangle_intersecting_notch
_is_rectangle_intersecting_notch(g, center_x, center_y, width, height) ==
    LET rect_left   == center_x - Half(width)
        rect_right  == center_x + Half(width)
        rect_bottom == center_y + Half(height)
        notch_y     == g.wafer_radius - g.notch_depth
        r           == g.wafer_radius
        d           == g.notch_depth
    IN  IF g.notch_type = NONE THEN FALSE
        ELSE IF g.notch_type = V_NOTCH_90 THEN
            /\ rect_bottom >= notch_y
            /\ rect_left <= d
            /\ rect_right >= -d
            /\ rect_bottom <= g.wafer_radius
        ELSE IF g.notch_type = FLAT THEN
            IF d >= r \/ d <= 0 THEN FALSE
            ELSE /\ rect_bottom >= notch_y
                 /\ LeRoot(rect_left, 2 * r * d - d * d)
                 /\ GeNegRoot(rect_right, 2 * r * d - d * d)
                 /\ rect_bottom <= g.wafer_radius
        ELSE FALSE

_validate_center_based(g, center_x, center_y) ==
    is_point_in_wafer(g, center_x, center_y)

\* the four corners, in the order of the code
Corners(center_x, center_y, width, height) ==
    << <<center_x - Half(width), center_y - Half(height)>>,
       <<center_x + Half(width), center_y - Half(height)>>,
       <<center_x + Half(width), center_y + Half(height)>>,
       <<center_x - Half(width), center_y + Half(height)>> >>

\* a slip of the corner policy: any() over the corners in place of all()
AnyCornerInWafer(g, center_x, center_y, width, height) ==
    LET corners == Corners(center_x, center_y, width, height)
    IN  \E k \in 1..4 : is_point_in_wafer(g, corners[k][1], corners[k][2])

_validate_corner_based(g, center_x, center_y, width, height) ==
    LET corners == Corners(center_x, center_y, width, height)
    IN  \A k \in 1..4 : is_point_in_wafer(g, corners[k][1], corners[k][2])

\* a slip of the strict policy: the four edge midpoints without the corners
StrictMidpointsOnly(g, center_x, center_y, width, height) ==
    LET check_points ==
            << <<center_x, center_y - Half(height)>>,
               <<center_x, center_y + Half(height)>>,
               <<center_x - Half(width), center_y>>,
               <<center_x + Half(width), center_y>> >>
    IN  \A k \in 1..4 : is_point_in_wafer(g, check_points[k][1], check_points[k][2])

_validate_strict(g, center_x, center_y, width, height) ==
    LET check_points ==
            Corners(center_x, center_y, width, height) \o
            << <<center_x, center_y - Half(height)>>,
               <<center_x, center_y + Half(height)>>,
               <<center_x - Half(width), center_y>>,
               <<center_x + Half(width), center_y>> >>
    IN  \A k \in 1..8 : is_point_in_wafer(g, check_points[k][1], check_points[k][2])

(***************************************************************************)
(* ExactGeometricCalculator (src/dpw/calculator.py)                        *)
(*                                                                         *)
(* Areas are integers in units of 1 / AreaScale square length units: the   *)
(* strip midpoints y_start + (i + 0.5) * dy are exact multiples of         *)
(* 1 / (2 * num_segments), and the circle half-width at a midpoint is the  *)
(* square root taken to 1 / (2 * num_segments * SqrtScale) of a unit.      *)
(***************************************************************************)
num_segments == 100
SqrtScale == 16
FineScale == 2 * num_segments * SqrtScale
AreaScale == FineScale * num_segments

\* the body of the loop over the strips: the overlap width of strip i, in
\* 1 / FineScale units (0 for a skipped strip)
StripOverlap(left, right, y_start, y_end, radius, i) ==
    LET y2 == 2 * num_segments * y_start + (2 * i + 1) * (y_end - y_start)
        r2 == 2 * num_segments * radius
    IN  IF Abs(y2) >= r2 THEN 0
        ELSE LET circle_half_width == ISqrt((r2 * r2 - y2 * y2) * SqrtScale * SqrtScale,
                                            r2 * SqrtScale)
                 intersect_left  == Max2(left * FineScale, -circle_half_width)
                 intersect_right == Min2(right * FineScale, circle_half_width)
             IN  IF intersect_right > intersect_left
                 THEN intersect_right - intersect_left
                 ELSE 0

SumStrips(left, right, y_start, y_end, radius) ==
    SumSeq([k \in 1..num_segments |->
               StripOverlap(left, right, y_start, y_end, radius, k - 1)])

\* ExactGeometricCalculator._compute_exact_intersection, in 1 / AreaScale
_compute_exact_intersection(left, right, bottom, top, radius) ==
    LET y_start == Max2(bottom, -radius)
        y_end   == Min2(top, radius)
    IN  IF y_start >= y_end THEN 0
        ELSE SumStrips(left, right, y_start, y_end, radius) * (y_end - y_start)

\* ExactGeometricCalculator.rectangle_circle_intersection_area, in 1 / AreaScale
rectangle_circle_intersection_area(center_x, center_y, width, height, circle_radius) ==
    LET left    == center_x - Half(width)
        right   == center_x + Half(width)
        top     == center_y + Half(height)
        bottom  == center_y - Half(height)
        corners == << <<left, bottom>>, <<right, bottom>>, <<right, top>>, <<left, top>> >>
        Outside(c) == c[1] * c[1] + c[2] * c[2] > circle_radius * circle_radius
    IN  IF \A k \in 1..4 : Outside(corners[k]) THEN 0
        ELSE IF \A k \in 1..4 : ~Outside(corners[k]) THEN width * height * AreaScale
        ELSE _compute_exact_intersection(left, right, bottom, top, circle_radius)

\* ExactGeometricCalculator.rectangle_circle_intersection_ratio as the
\* fraction num / den; a rectangle of negative width has a negative area
rectangle_circle_intersection_ratio(center_x, center_y, width, height, circle_radius) ==
    LET intersection_area ==
            rectangle_circle_intersection_area(center_x, center_y, width, height, circle_radius)
        rectangle_area == width * height * AreaScale
    IN  IF rectangle_area = 0 THEN [num |-> 0, den |-> 1]
        ELSE IF rectangle_area < 0
             THEN IF intersection_area <= rectangle_area THEN [num |-> 1, den |-> 1]
                  ELSE [num |-> -intersection_area, den |-> -rectangle_area]
        ELSE IF intersection_area >= rectangle_area THEN [num |-> 1, den |-> 1]
        ELSE [num |-> intersection_area, den |-> rectangle_area]

\* the ratios 1.0 and 0.0
RatioOne == [num |-> 1, den |-> 1]
RatioZero == [num |-> 0, den |-> 1]

\* WaferGeometry._validate_area_based: <<is_valid, area_ratio>>
_validate_area_based(g, center_x, center_y, width, height) ==
    LET area_ratio == rectangle_circle_intersection_ratio(
                          center_x, center_y, width, height, g.effective_radius)
    IN  <<2 * area_ratio.num > area_ratio.den, area_ratio>>

\* a validation that applies the selected policy without the notch test
RectangleInWaferIgnoringNotch(g, center_x, center_y, width, height, method) ==
    IF method = CENTER_BASED
    THEN <<_validate_center_based(g, center_x, center_y), RatioOne>>
    ELSE IF method = CORNER_BASED
         THEN <<_validate_corner_based(g, center_x, center_y, width, height), RatioOne>>
    ELSE IF method = AREA_BASED
         THEN _validate_area_based(g, center_x, center_y, width, height)
    ELSE <<_validate_strict(g, center_x, center_y, width, height), RatioOne>>

\* raise ValueError(f"Unknown validation method: {method}"): the call
\* returns no pair; the third component tells it from a rejection
UnknownValidationMethod == <<FALSE, RatioZero, "ValueError">>

\* whether a call of is_rectangle_in_wafer raised
Raised(check) == Len(check) = 3

\* WaferGeometry.is_rectangle_in_wafer: <<is_valid, area_ratio>>
is_rectangle_in_wafer(g, center_x, center_y, width, height, method) ==
    IF _is_rectangle_intersecting_notch(g, center_x, center_y, width, height)
    THEN <<FALSE, RatioZero>>
    ELSE IF method = CENTER_BASED
         THEN <<_validate_center_based(g, center_x, center_y), RatioOne>>
    ELSE IF method = CORNER_BASED
         THEN <<_validate_corner_based(g, center_x, center_y, width, height), RatioOne>>
    ELSE IF method = AREA_BASED
         THEN _validate_area_based(g, center_x, center_y, width, height)
    ELSE IF method = STRICT
         THEN <<_validate_strict(g, center_x, center_y, width, height), RatioOne>>
    ELSE UnknownValidationMethod

(***************************************************************************)
(* IEEE-754 binary64 arithmetic of the yield product.  A magnitude is a    *)
(* sequence of bits, most significant first; a float is mant * 2^exp.      *)
(***************************************************************************)
MantissaBits == 53
FractionBits == 64
LimbBits == 15
Limb == 2 ^ LimbBits

\* the bits of a natural number below 2^30
BitLength(n) == CHOOSE l \in 0..30 : n < 2 ^ l /\ (l = 0 \/ n >= 2 ^ (l - 1))
NatBits(n) == [k \in 1..BitLength(n) |-> (n \div 2 ^ (BitLength(n) - k)) % 2]

\* the value of a magnitude below 2^30
BitsNat(b) == SumSeq([k \in 1..Len(b) |-> b[k] * 2 ^ (Len(b) - k)])

Zeros(k) == [i \in 1..k |-> 0]

StripZeros(b) ==
    IF \A k \in 1..Len(b) : b[k] = 0 THEN << >>
    ELSE SubSeq(b, CHOOSE k \in 1..Len(b) :
                       b[k] = 1 /\ \A j \in 1..(k - 1) : b[j] = 0, Len(b))

\* the bit of weight 2^w of the magnitude b
BitAt(b, w) == IF w < Len(b) THEN b[Len(b) - w] ELSE 0

\* 2^e modulo m, for e < 120 and m < 1000
PowMod(e, m) ==
    LET p30 == (2 ^ 30) % m
        hi  == e \div 30
        top == IF hi = 0 THEN 1
               ELSE IF hi = 1 THEN p30
               ELSE IF hi = 2 THEN (p30 * p30) % m
               ELSE (((p30 * p30) % m) * p30) % m
    IN  (top * ((2 ^ (e % 30)) % m)) % m

\* floor(a * 2^e / d) modulo 2, for e >= 0
QuotientBit(a, e, d) == (((a % (2 * d)) * PowMod(e, 2 * d)) % (2 * d)) >= d

\* the number of bits of floor(a * 2^FractionBits / d), for 0 < a < 2^30
QuotientLength(a, d) ==
    IF a >= d
    THEN FractionBits + 1 + (CHOOSE s \in 0..30 : d * 2 ^ s <= a /\ d * 2 ^ (s + 1) > a)
    ELSE FractionBits + 1 - (CHOOSE t \in 1..30 : a * 2 ^ t >= d /\ a * 2 ^ (t - 1) < d)

\* the quotient and the remainder of a * 2^FractionBits by the small d
DivBits(a, d) ==
    LET l == QuotientLength(a, d)
    IN  [q |-> [k \in 1..l |->
                   IF l - k <= FractionBits
                   THEN (IF QuotientBit(a, FractionBits - (l - k), d) THEN 1 ELSE 0)
                   ELSE ((a \div d) \div 2 ^ (l - k - FractionBits)) % 2],
         r |-> ((a % d) * PowMod(FractionBits, d)) % d]

\* limb i (weight Limb^i) of the magnitude b
LimbOf(b, i) ==
    SumSeq([w \in 1..LimbBits |-> BitAt(b, LimbBits * i + w - 1) * 2 ^ (w - 1)])

\* the limbs of b * n from limb i on, given the carry into limb i
RECURSIVE MulLimbs(_, _, _, _)
MulLimbs(b, n, i, carry) ==
    IF LimbBits * i >= Len(b) THEN <<carry>>
    ELSE LET t == LimbOf(b, i) * n + carry
         IN  <<t % Limb>> \o MulLimbs(b, n, i + 1, t \div Limb)

\* b * n for a natural number n below Limb
MulBits(b, n) ==
    LET limbs == MulLimbs(b, n, 0, 0)
        l     == LimbBits * Len(limbs)
    IN  StripZeros([k \in 1..l |->
            (limbs[((l - k) \div LimbBits) + 1] \div 2 ^ ((l - k) % LimbBits)) % 2])

IncBits(b) ==
    IF \A k \in 1..Len(b) : b[k] = 1 THEN <<1>> \o Zeros(Len(b))
    ELSE LET z == CHOOSE k \in 1..Len(b) :
                      b[k] = 0 /\ \A j \in (k + 1)..Len(b) : b[j] = 1
         IN  [k \in 1..Len(b) |-> IF k < z THEN b[k] ELSE IF k = z THEN 1 ELSE 0]

\* round-to-nearest-even of the magnitude b (followed by a non-zero tail
\* when sticky) to MantissaBits significant bits
RoundNearestEven(b, sticky) ==
    IF Len(b) <= MantissaBits THEN [mant |-> b, shift |-> 0]
    ELSE LET top   == SubSeq(b, 1, MantissaBits)
             guard == b[MantissaBits + 1]
             rest  == sticky \/ \E k \in (MantissaBits + 2)..Len(b) : b[k] = 1
             up    == guard = 1 /\ (rest \/ top[MantissaBits] = 1)
         IN  [mant |-> IF up THEN IncBits(top) ELSE top, shift |-> Len(b) - MantissaBits]

\* the float a / b of two non-negative integers (b > 0)
FloatDiv(a, b) ==
    IF a = 0 THEN [mant |-> << >>, exp |-> 0]
    ELSE LET dv == DivBits(a, b)
             rd == RoundNearestEven(dv.q, dv.r # 0)
         IN  [mant |-> rd.mant, exp |-> rd.shift - FractionBits]

\* the float n * f of a non-negative integer and a float
FloatMul(n, f) ==
    LET rd == RoundNearestEven(MulBits(f.mant, n), FALSE)
    IN  [mant |-> rd.mant, exp |-> f.exp + rd.shift]

\* int(f) of a non-negative float
FloatToInt(f) ==
    IF f.exp >= 0 THEN BitsNat(f.mant \o Zeros(f.exp))
    ELSE IF -f.exp >= Len(f.mant) THEN 0
    ELSE BitsNat(SubSeq(f.mant, 1, Len(f.mant) + f.exp))

\* int(valid_dies * (yield_percentage / 100.0)); int() truncates toward zero
YieldDies(valid_dies, yield_percentage) ==
    IF yield_percentage >= 0
    THEN FloatToInt(FloatMul(valid_dies, FloatDiv(yield_percentage, 100)))
    ELSE -FloatToInt(FloatMul(valid_dies, FloatDiv(-yield_percentage, 100)))

(***************************************************************************)
(* IEEE-754 binary64 arithmetic of the coordinates.  A natural number is a *)
(* sequence of limbs below 2^LimbBits, least significant first, without    *)
(* leading zero limbs; a float is the non-negative value m * 2^e.          *)
(***************************************************************************)
BigNorm(l) ==
    IF \A i \in 1..Len(l) : l[i] = 0 THEN << >>
    ELSE SubSeq(l, 1, CHOOSE i \in 1..Len(l) :
                          l[i] # 0 /\ \A j \in (i + 1)..Len(l) : l[j] = 0)

BigOfNat(n) == BigNorm(<<n % Limb, n \div Limb>>)

LimbAt(l, i) == IF i >= 1 /\ i <= Len(l) THEN l[i] ELSE 0

\* the value of a natural number below 2^30
NatOfBig(l) == LimbAt(l, 1) + Limb * LimbAt(l, 2)

\* the number of significant bits
BigLen(l) ==
    IF l = << >> THEN 0 ELSE LimbBits * (Len(l) - 1) + BitLength(l[Len(l)])

\* the bit of weight 2^k
BigBit(l, k) == (LimbAt(l, (k \div LimbBits) + 1) \div 2 ^ (k % LimbBits)) % 2

\* -1, 0 or 1 as a is below, equal to or above b
BigCmp(a, b) ==
    IF Len(a) # Len(b) THEN (IF Len(a) < Len(b) THEN -1 ELSE 1)
    ELSE IF a = b THEN 0
    ELSE LET i == CHOOSE i \in 1..Len(a) :
                      a[i] # b[i] /\ \A j \in (i + 1)..Len(a) : a[j] = b[j]
         IN  IF a[i] < b[i] THEN -1 ELSE 1

\* a + b: limb i receives a carry when a lower limb overflows and every limb
\* between passes the carry on
BigAdd(a, b) ==
    LET Sum(i) == LimbAt(a, i) + LimbAt(b, i)
        Carry(i) == \E j \in 1..(i - 1) :
                        Sum(j) >= Limb /\ \A k \in (j + 1)..(i - 1) : Sum(k) = Limb - 1
    IN  BigNorm([i \in 1..(Max2(Len(a), Len(b)) + 1) |->
                    (Sum(i) + (IF Carry(i) THEN 1 ELSE 0)) % Limb])

\* a - b for a >= b: limb i lends when a lower limb falls short and every
\* limb between is level
BigSub(a, b) ==
    LET Diff(i) == LimbAt(a, i) - LimbAt(b, i)
        Borrow(i) == \E j \in 1..(i - 1) :
                         Diff(j) < 0 /\ \A k \in (j + 1)..(i - 1) : Diff(k) = 0
    IN  BigNorm([i \in 1..Len(a) |->
                    (Diff(i) - (IF Borrow(i) THEN 1 ELSE 0) + Limb) % Limb])

\* a * b: column k collects the low halves of the limb products of weight
\* Limb^k and the high halves of those of weight Limb^(k-1)
BigMul(a, b) ==
    LET Product(i, k) == IF k - i >= 1 /\ k - i <= Len(b) THEN a[i] * b[k - i] ELSE 0
        Column(k) == SumSeq([i \in 1..Len(a) |->
                         (Product(i, k + 1) % Limb) + (Product(i, k) \div Limb)])
        columns == [k \in 1..(Len(a) + Len(b)) |-> Column(k)]
    IN  BigAdd([k \in 1..Len(columns) |-> columns[k] % Limb],
               <<0>> \o [k \in 1..Len(columns) |-> columns[k] \div Limb])

\* a * 2^s
BigShl(a, s) ==
    LET q == s \div LimbBits
        r == s % LimbBits
    IN  BigNorm([i \in 1..(Len(a) + q + 1) |->
            IF i <= q THEN 0
            ELSE ((LimbAt(a, i - q) % 2 ^ (LimbBits - r)) * 2 ^ r)
                     + (LimbAt(a, i - q - 1) \div 2 ^ (LimbBits - r))])

\* floor(a / 2^s)
BigShr(a, s) ==
    LET q == s \div LimbBits
        r == s % LimbBits
    IN  IF q >= Len(a) THEN << >>
        ELSE BigNorm([i \in 1..(Len(a) - q) |->
                 (a[i + q] \div 2 ^ r)
                     + ((LimbAt(a, i + q + 1) % 2 ^ r) * 2 ^ (LimbBits - r))])

\* whether a bit of weight below 2^s is set
BigLowBits(a, s) == \E k \in 0..(s - 1) : BigBit(a, k) = 1

F64Zero == [m |-> << >>, e |-> 0]

\* round-to-nearest-even of n * 2^e (followed by a non-zero tail when
\* sticky) to MantissaBits significant bits
F64Round(n, e, sticky) ==
    IF n = << >> THEN F64Zero
    ELSE IF BigLen(n) <= MantissaBits THEN [m |-> n, e |-> e]
    ELSE LET s     == BigLen(n) - MantissaBits
             top   == BigShr(n, s)
             rest  == sticky \/ BigLowBits(n, s - 1)
             up    == BigBit(n, s - 1) = 1 /\ (rest \/ BigBit(top, 0) = 1)
         IN  [m |-> IF up THEN BigAdd(top, <<1>>) ELSE top, e |-> e + s]

\* float(n) of a natural number below 2^30
F64OfNat(n) == [m |-> BigOfNat(n), e |-> 0]

\* n / 2.0 of a natural number
F64Halved(n) == [m |-> BigOfNat(n), e |-> -1]

\* the mantissas of a and b at their common (smaller) exponent
F64Aligned(a, b) ==
    LET e == Min2(a.e, b.e)
    IN  [a |-> BigShl(a.m, a.e - e), b |-> BigShl(b.m, b.e - e), e |-> e]

\* -1, 0 or 1 as a is below, equal to or above b
F64Cmp(a, b) ==
    IF a.m = << >> \/ b.m = << >>
    THEN (IF a.m = b.m THEN 0 ELSE IF a.m = << >> THEN -1 ELSE 1)
    ELSE LET al == F64Aligned(a, b) IN BigCmp(al.a, al.b)

F64Add(a, b) ==
    IF a.m = << >> THEN b
    ELSE IF b.m = << >> THEN a
    ELSE LET al == F64Aligned(a, b)
         IN  F64Round(BigAdd(al.a, al.b), al.e, FALSE)

\* a - b for a >= b
F64Sub(a, b) ==
    IF b.m = << >> THEN a
    ELSE LET al == F64Aligned(a, b)
         IN  F64Round(BigSub(al.a, al.b), al.e, FALSE)

F64Mul(a, b) == F64Round(BigMul(a.m, b.m), a.e + b.e, FALSE)

\* the step of the long division by b (top bit set) that brings down limb x
\* of the dividend: the quotient limb is at most two below its estimate from
\* the leading limbs (Knuth, algorithm D)
DivStep(st, x, b) ==
    IF st.rem = << >> /\ x = 0 THEN [q |-> <<0>> \o st.q, rem |-> << >>]
    ELSE LET cur   == BigNorm(<<x>> \o st.rem)
             est   == Min2(Limb - 1,
                           (LimbAt(cur, Len(b) + 1) * Limb + LimbAt(cur, Len(b)))
                               \div b[Len(b)])
             Fits(k) == BigCmp(BigMul(b, <<k>>), cur) <= 0
             digit == CHOOSE k \in Max2(0, est - 2)..est :
                          Fits(k) /\ (k = est \/ ~Fits(k + 1))
         IN  IF Len(cur) < Len(b) THEN [q |-> <<0>> \o st.q, rem |-> cur]
             ELSE [q   |-> <<digit>> \o st.q,
                   rem |-> BigSub(cur, BigMul(b, BigOfNat(digit)))]

\* the state of the long division of d by b after the limbs of d from the
\* most significant one down to limb i; the limbs above Len(d) - Len(b) + 2
\* make a first remainder below b
RECURSIVE DivState(_, _, _)
DivState(d, b, i) ==
    IF i > Len(d) - Len(b) + 1
    THEN [q |-> << >>, rem |-> BigNorm(SubSeq(d, Max2(1, Len(d) - Len(b) + 2), Len(d)))]
    ELSE DivStep(DivState(d, b, i + 1), d[i], b)

\* the quotient and the remainder of the last state st of a long division
\* whose operands were scaled by 2^z
DivResult(st, z) ==
    IF st.rem = << >> THEN [q |-> BigNorm(st.q), rem |-> << >>]
    ELSE [q |-> BigNorm(st.q), rem |-> BigShr(st.rem, z)]

\* floor(d / b) and the remainder, for b > 0
BigDivMod(d, b) ==
    IF BigCmp(d, b) < 0 THEN [q |-> << >>, rem |-> d]
    ELSE LET z == (LimbBits * Len(b)) - BigLen(b)
         IN  DivResult(DivState(BigShl(d, z), BigShl(b, z), 1), z)

\* a / b for b > 0: the quotient is formed with three bits more than the
\* mantissa holds, the remainder makes the tail
F64Quotient(dm, e) == F64Round(dm.q, e, dm.rem # << >>)

F64Div(a, b) ==
    IF a.m = << >> THEN F64Zero
    ELSE LET k == Max2(0, MantissaBits + 3 + BigLen(b.m) - BigLen(a.m))
         IN  F64Quotient(BigDivMod(BigShl(a.m, k), b.m), a.e - b.e - k)

\* one step of Newton's iteration downwards for the square root of n; the
\* iteration rests once x = floor(sqrt(n))
NewtonMean(x, q) ==
    IF BigCmp(q, x) >= 0 THEN x ELSE BigShr(BigAdd(x, q), 1)

NewtonStep(n, x) == NewtonMean(x, BigDivMod(n, x).q)

\* the root x of d with what d exceeds its square by
RootAndRem(d, x) == [root |-> x, rem |-> BigSub(d, BigMul(x, x))]

\* floor(sqrt(d)) and the remainder, for d of 2 * LimbBits to 8 * LimbBits
\* bits: the iteration starts from the root of the leading bits, rounded up,
\* and doubles its correct bits with every step
BigSqrtRem(d) ==
    LET s    == 2 * ((BigLen(d) - 2 * LimbBits + 1) \div 2)
        x0   == BigShl(BigOfNat(ISqrt(NatOfBig(BigShr(d, s)), Limb) + 1), s \div 2)
        x1   == NewtonStep(d, x0)
        x2   == NewtonStep(d, x1)
        x3   == NewtonStep(d, x2)
    IN  RootAndRem(d, NewtonStep(d, x3))

\* math.sqrt(a): the radicand is scaled by an even power of two until its
\* root has more bits than the mantissa holds
F64Root(sr, e) == F64Round(sr.root, e, sr.rem # << >>)

F64Sqrt(a) ==
    IF a.m = << >> THEN F64Zero
    ELSE LET k0 == Max2(0, 2 * (MantissaBits + 3) - BigLen(a.m))
             k  == IF (a.e - k0) % 2 = 0 THEN k0 ELSE k0 + 1
         IN  F64Root(BigSqrtRem(BigShl(a.m, k)), (a.e - k) \div 2)

\* int(a) of a float below 2^30
F64Trunc(a) ==
    IF a.e >= 0 THEN NatOfBig(BigShl(a.m, a.e)) ELSE NatOfBig(BigShr(a.m, -a.e))

(***************************************************************************)
(* Results                                                                 *)
(***************************************************************************)
\* math.pi, as the fraction PiNum / PiDen
PiNum == 355
PiDen == 113

\* math.sqrt(center_x * center_x + center_y * center_y), in 1 / SqrtScale
Distance(center_x, center_y) ==
    ISqrt((center_x * center_x + center_y * center_y) * SqrtScale * SqrtScale,
          (Abs(center_x) + Abs(center_y)) * SqrtScale)

DiePosition(row, col, center_x, center_y, is_valid, area_ratio, distance_from_center) ==
    [row |-> row, col |-> col, center_x |-> center_x, center_y |-> center_y,
     is_valid |-> is_valid, area_ratio |-> area_ratio,
     distance_from_center |-> distance_from_center]

\* (total_die_area_mm2 / total_wafer_area_mm2) * 100.0, as a fraction
WaferUtilization(valid_dies, die_size_x, die_size_y, effective_radius) ==
    [num |-> 100 * PiDen * valid_dies * die_size_x * die_size_y,
     den |-> PiNum * effective_radius * effective_radius]

\* the outcome of a call: no call yet, a raised error, or a CalculationResult;
\* enumerated counts the candidate positions the call generated
NoCall == [status |-> "none"]

Failed(err, enumerated) ==
    [status |-> "error", type |-> err.type, messages |-> err.messages,
     enumerated |-> enumerated]

CalculationResult(total_dies, yield_dies, wafer_utilization, die_positions, calculation_method, enumerated) ==
    [status |-> "ok", total_dies |-> total_dies, yield_dies |-> yield_dies,
     wafer_utilization |-> wafer_utilization, die_positions |-> die_positions,
     calculation_method |-> calculation_method, enumerated |-> enumerated]

(***************************************************************************)
(* Candidate enumeration of DieCalculator                                  *)
(***************************************************************************)
\* [(i, j) for i in range(lo_x, hi_x) for j in range(lo_y, hi_y)]
Grid(lo_x, hi_x, lo_y, hi_y) ==
    LET xs == PyRange(lo_x, hi_x)
        ys == PyRange(lo_y, hi_y)
    IN  [k \in 1..(Len(xs) * Len(ys)) |->
            <<xs[((k - 1) \div Len(ys)) + 1], ys[((k - 1) % Len(ys)) + 1]>>]

\* a slip of the pre-filter: the half diagonal subtracted from the radius,
\* distance_to_center <= wafer_radius - sqrt((pitch_x/2)**2 + (pitch_y/2)**2)
WithinRadiusLessHalfDiagonal(center_x, center_y, wafer_radius, die_pitch_x, die_pitch_y) ==
    LET a == center_x * center_x + center_y * center_y
        h == Half(die_pitch_x) * Half(die_pitch_x) + Half(die_pitch_y) * Half(die_pitch_y)
        c == wafer_radius * wafer_radius - a - h
    IN  /\ c >= 0
        /\ 4 * a * h <= c * c

\* distance_to_center <= wafer_radius + sqrt((pitch_x/2)**2 + (pitch_y/2)**2),
\* decided on the squares
WithinMaxPossibleDistance(center_x, center_y, wafer_radius, die_pitch_x, die_pitch_y) ==
    LET a == center_x * center_x + center_y * center_y
        h == Half(die_pitch_x) * Half(die_pitch_x) + Half(die_pitch_y) * Half(die_pitch_y)
        c == a + wafer_radius * wafer_radius - h
    IN  \/ a <= wafer_radius * wafer_radius
        \/ c <= 0
        \/ c * c <= 4 * wafer_radius * wafer_radius * a

\* SpatialOptimizer.get_optimized_candidate_positions (die pitches non-zero)
get_optimized_candidate_positions(wafer_radius, die_pitch_x, die_pitch_y) ==
    LET max_dies_x == TruncDiv(2 * wafer_radius, die_pitch_x) + 2
        max_dies_y == TruncDiv(2 * wafer_radius, die_pitch_y) + 2
        Keep(c) == WithinMaxPossibleDistance(c[1] * die_pitch_x, c[2] * die_pitch_y,
                                             wafer_radius, die_pitch_x, die_pitch_y)
    IN  SelectSeq(Grid(FloorHalf(-max_dies_x), FloorHalf(max_dies_x) + 1,
                       FloorHalf(-max_dies_y), FloorHalf(max_dies_y) + 1), Keep)

\* the traditional enumeration of calculate_dies_per_wafer
TraditionalCandidatePositions(effective_radius, die_pitch_x, die_pitch_y) ==
    LET max_dies_x == TruncDiv(2 * effective_radius, die_pitch_x) + 1
        max_dies_y == TruncDiv(2 * effective_radius, die_pitch_y) + 1
    IN  Grid(FloorHalf(-max_dies_x), FloorHalf(max_dies_x) + 1,
             FloorHalf(-max_dies_y), FloorHalf(max_dies_y) + 1)

\* the debug message of get_optimized_candidate_positions divides by
\* max_dies_x * max_dies_y
SpatialLogDividesByZero(wafer_radius, die_pitch_x, die_pitch_y) ==
    (TruncDiv(2 * wafer_radius, die_pitch_x) + 2)
        * (TruncDiv(2 * wafer_radius, die_pitch_y) + 2) = 0

(***************************************************************************)
(* DieCalculator.calculate_dies_per_wafer                                  *)
(***************************************************************************)
\* the loop's call of is_rectangle_in_wafer on each candidate, with the die
\* pitch as the rectangle: <<is_valid, area_ratio>> per candidate
CheckCandidates(g, candidate_positions, die_pitch_x, die_pitch_y, method) ==
    [k \in 1..Len(candidate_positions) |->
        is_rectangle_in_wafer(g, candidate_positions[k][1] * die_pitch_x,
                              candidate_positions[k][2] * die_pitch_y,
                              die_pitch_x, die_pitch_y, method)]

\* die_positions.append(die_pos): one DiePosition per candidate, valid or not
GenerateDiePositions(candidate_positions, checks, die_pitch_x, die_pitch_y) ==
    [k \in 1..Len(candidate_positions) |->
        LET i == candidate_positions[k][1]
            j == candidate_positions[k][2]
            center_x == i * die_pitch_x
            center_y == j * die_pitch_y
        IN  DiePosition(j, i, center_x, center_y, checks[k][1], checks[k][2],
                        Distance(center_x, center_y))]

\* if is_valid: valid_dies += 1
CountValid(checks) ==
    Cardinality({k \in 1..Len(checks) : checks[k][1]})

\* the CalculationResult the call returns after a loop that finished
ResultOfLoop(a, g, candidate_positions, checks, valid_dies) ==
    CalculationResult(
        valid_dies,
        YieldDies(valid_dies, a.yield_percentage),
        WaferUtilization(valid_dies, LenOfUm(a.die_size_x_um), LenOfUm(a.die_size_y_um),
                         g.effective_radius),
        GenerateDiePositions(candidate_positions, checks,
                             LenOfUm(a.die_size_x_um) + LenOfUm(a.scribe_lane_x_um),
                             LenOfUm(a.die_size_y_um) + LenOfUm(a.scribe_lane_y_um)),
        a.validation_method,
        Len(candidate_positions))

\* the loop over the candidates: the exception is_rectangle_in_wafer raises
\* in it, or the result
LoopOverCandidates(a, g, candidate_positions, checks) ==
    IF \E k \in 1..Len(checks) : Raised(checks[k])
    THEN Failed(Raise("ValueError", <<"Unknown validation method">>),
                Len(candidate_positions))
    ELSE ResultOfLoop(a, g, candidate_positions, checks, CountValid(checks))

\* the call from the enumeration of the candidates on
AfterEnumeration(a, enable_optimizations, g, die_pitch_x, die_pitch_y, candidate_positions) ==
    IF enable_optimizations
       /\ SpatialLogDividesByZero(g.effective_radius, die_pitch_x, die_pitch_y)
    THEN Failed(Raise("ZeroDivisionError", <<"float division by zero">>),
                Len(candidate_positions))
    ELSE LoopOverCandidates(a, g, candidate_positions,
                            CheckCandidates(g, candidate_positions, die_pitch_x, die_pitch_y,
                                            a.validation_method))

\* the call on the geometry g it constructed
CalculateOnGeometry(a, enable_optimizations, g, die_pitch_x, die_pitch_y) ==
    IF die_pitch_x = 0 \/ die_pitch_y = 0
    THEN Failed(Raise("ZeroDivisionError", <<"float division by zero">>), 0)
    ELSE AfterEnumeration(a, enable_optimizations, g, die_pitch_x, die_pitch_y,
             IF enable_optimizations
             THEN get_optimized_candidate_positions(g.effective_radius,
                                                    die_pitch_x, die_pitch_y)
             ELSE TraditionalCandidatePositions(g.effective_radius,
                                                die_pitch_x, die_pitch_y))

\* the call once WaferGeometry(...) has returned or raised
CalculateWith(a, enable_optimizations, wafer_geom) ==
    IF ~wafer_geom.ok THEN Failed(wafer_geom, 0)
    ELSE CalculateOnGeometry(a, enable_optimizations, wafer_geom.value,
                             LenOfUm(a.die_size_x_um) + LenOfUm(a.scribe_lane_x_um),
                             LenOfUm(a.die_size_y_um) + LenOfUm(a.scribe_lane_y_um))

calculate_dies_per_wafer(a, enable_optimizations) ==
    CalculateWith(a, enable_optimizations,
                  WaferGeometry(a.wafer_diameter_mm, a.edge_exclusion_mm,
                                a.notch_type, a.notch_depth_mm))

(***************************************************************************)
(* OptimizedWaferGeometry (src/src/dpw/optimized_calculator.py)            *)
(***************************************************************************)
Opt_calculate_notch_area(notch_type, wafer_radius, notch_depth) ==
    IF notch_type = NONE THEN Ok(0)
    ELSE IF notch_type = V_NOTCH_90 THEN Ok(notch_depth * notch_depth)
    ELSE IF notch_type = FLAT THEN
        LET r == wafer_radius
            d == notch_depth
        IN  IF d >= r \/ d <= 0 THEN Ok(0)
            ELSE Ok(2 * ISqrt(2 * r * d - d * d, r) * d)
    ELSE Ok(0)

\* OptimizedWaferGeometry.__init__
OptimizedWaferGeometry(wafer_diameter_mm, edge_exclusion_mm, notch_type, notch_depth_mm) ==
    LET wafer_radius     == LenOfMm(wafer_diameter_mm) \div 2
        edge_exclusion   == LenOfMm(edge_exclusion_mm)
        effective_radius == wafer_radius - edge_exclusion
        notch_depth      == LenOfMm(notch_depth_mm)
        notch_area       == Opt_calculate_notch_area(notch_type, wafer_radius, notch_depth)
    IN  IF effective_radius <= 0
        THEN Raise("ValueError", <<"Effective radius must be positive">>)
        ELSE IF notch_depth < 0
             THEN Raise("ValueError", <<"Notch depth must be non-negative">>)
        ELSE IF notch_depth >= wafer_radius
             THEN Raise("ValueError", <<"Notch depth cannot exceed wafer radius">>)
        ELSE Ok([wafer_radius     |-> wafer_radius,
                 edge_exclusion   |-> edge_exclusion,
                 effective_radius |-> effective_radius,
                 notch_type       |-> notch_type,
                 notch_depth      |-> notch_depth,
                 notch_area       |-> notch_area.value])

Opt_is_point_in_wafer(g, x, y) ==
    x * x + y * y <= g.effective_radius * g.effective_radius

Opt_is_rectangle_intersecting_notch(g, center_x, center_y, width, height) ==
    LET rect_left   == center_x - Half(width)
        rect_right  == center_x + Half(width)
        rect_bottom == center_y + Half(height)
        notch_y     == g.wafer_radius - g.notch_depth
        r           == g.wafer_radius
        d           == g.notch_depth
    IN  IF g.notch_type = NONE THEN FALSE
        ELSE IF g.notch_type = V_NOTCH_90 THEN
            /\ rect_bottom >= notch_y
            /\ rect_left <= d
            /\ rect_right >= -d
            /\ rect_bottom <= g.wafer_radius
        ELSE IF g.notch_type = FLAT THEN
            IF d >= r \/ d <= 0 THEN FALSE
            ELSE /\ rect_bottom >= notch_y
                 /\ LeRoot(rect_left, 2 * r * d - d * d)
                 /\ GeNegRoot(rect_right, 2 * r * d - d * d)
                 /\ rect_bottom <= g.wafer_radius
        ELSE FALSE

Opt_validate_center_based(g, center_x, center_y) ==
    Opt_is_point_in_wafer(g, center_x, center_y)

\* the far corner first, then all four corners
Opt_validate_corner_based(g, center_x, center_y, width, height) ==
    LET far_corner_x == Abs(center_x) + Half(width)
        far_corner_y == Abs(center_y) + Half(height)
        corners      == Corners(center_x, center_y, width, height)
    IN  IF far_corner_x * far_corner_x + far_corner_y * far_corner_y
               <= g.effective_radius * g.effective_radius
        THEN TRUE
        ELSE \A k \in 1..4 : Opt_is_point_in_wafer(g, corners[k][1], corners[k][2])

\* centre inside and more than half of the corners inside: <<is_valid, area_ratio>>
Opt_validate_area_based(g, center_x, center_y, width, height) ==
    LET corners    == Corners(center_x, center_y, width, height)
        corners_in == Cardinality({k \in 1..4 :
                          Opt_is_point_in_wafer(g, corners[k][1], corners[k][2])})
    IN  IF ~Opt_is_point_in_wafer(g, center_x, center_y)
        THEN <<FALSE, RatioZero>>
        ELSE <<2 * corners_in > 4, [num |-> corners_in, den |-> 4]>>

\* the four corners only
Opt_validate_strict(g, center_x, center_y, width, height) ==
    LET corners == Corners(center_x, center_y, width, height)
    IN  \A k \in 1..4 : Opt_is_point_in_wafer(g, corners[k][1], corners[k][2])

\* OptimizedWaferGeometry.is_rectangle_in_wafer: <<is_valid, area_ratio>>
Opt_is_rectangle_in_wafer(g, center_x, center_y, width, height, method) ==
    IF Opt_is_rectangle_intersecting_notch(g, center_x, center_y, width, height)
    THEN <<FALSE, RatioZero>>
    ELSE IF method = CENTER_BASED
         THEN <<Opt_validate_center_based(g, center_x, center_y), RatioOne>>
    ELSE IF method = CORNER_BASED
         THEN <<Opt_validate_corner_based(g, center_x, center_y, width, height), RatioOne>>
    ELSE IF method = AREA_BASED
         THEN Opt_validate_area_based(g, center_x, center_y, width, height)
    ELSE IF method = STRICT
         THEN <<Opt_validate_strict(g, center_x, center_y, width, height), RatioOne>>
    ELSE UnknownValidationMethod

(***************************************************************************)
(* OptimizedDieCalculator                                                  *)
(***************************************************************************)
\* a slip of the row bound: range(max_j_row) in place of range(max_j_row + 1)
RowVisitsExclusive(effective_radius, pitch_x, pitch_y, i, j) ==
    LET center_x == i * pitch_x
        remaining_radius_sq == effective_radius * effective_radius - center_x * center_x
    IN  /\ remaining_radius_sq >= 0
        /\ Abs(j) < ISqrt(remaining_radius_sq, effective_radius) \div pitch_y

\* the positions a row of the loops visits: x inside the circle and
\* |j| <= int(max_y / pitch_y), with max_y = sqrt(R^2 - center_x^2)
RowVisits(effective_radius, pitch_x, pitch_y, i, j) ==
    LET center_x == i * pitch_x
        remaining_radius_sq == effective_radius * effective_radius - center_x * center_x
    IN  /\ remaining_radius_sq >= 0
        /\ Abs(j) <= ISqrt(remaining_radius_sq, effective_radius) \div pitch_y

\* the notch branch: range(-max_i, max_i + 1), each row from -max_j_range
\* to max_j_range
FullRangePositions(effective_radius, pitch_x, pitch_y) ==
    LET max_i == TruncDiv(effective_radius, pitch_x) + 1
        max_j == TruncDiv(effective_radius, pitch_y) + 1
        Visits(c) == RowVisits(effective_radius, pitch_x, pitch_y, c[1], c[2])
    IN  SelectSeq(Grid(-max_i, max_i + 1, -max_j, max_j + 1), Visits)

\* the symmetric branch: range(max_i + 1), each row from 0 to max_j_row
FirstQuadrantPositions(effective_radius, pitch_x, pitch_y) ==
    LET max_i == TruncDiv(effective_radius, pitch_x) + 1
        max_j == TruncDiv(effective_radius, pitch_y) + 1
        Visits(c) == RowVisits(effective_radius, pitch_x, pitch_y, c[1], c[2])
    IN  SelectSeq(Grid(0, max_i + 1, 0, max_j + 1), Visits)

\* OptimizedDieCalculator._get_symmetric_positions: <<i, j, x, y>> tuples
_get_symmetric_positions(i, j, center_x, center_y) ==
    IF i = 0 /\ j = 0 THEN << <<i, j, center_x, center_y>> >>
    ELSE IF i = 0 THEN << <<0, j, 0, center_y>>, <<0, -j, 0, -center_y>> >>
    ELSE IF j = 0 THEN << <<i, 0, center_x, 0>>, <<-i, 0, -center_x, 0>> >>
    ELSE << <<i, j, center_x, center_y>>,
            <<-i, j, -center_x, center_y>>,
            <<-i, -j, -center_x, -center_y>>,
            <<i, -j, center_x, -center_y>> >>

\* slips of the symmetric count: an axis position counted like a quadrant
\* position, and every position counted once
SymmetricCountAxisAsQuadrant(i, j) ==
    IF i = 0 /\ j = 0 THEN 1 ELSE 4

SymmetricCountOnce(i, j) ==
    IF i = 0 /\ j = 0 THEN 1 ELSE 1

\* what an accepted first-quadrant position adds to valid_dies
SymmetricCount(i, j) ==
    IF i = 0 /\ j = 0 THEN 1
    ELSE IF i = 0 \/ j = 0 THEN 2
    ELSE 4

\* OptimizedDieCalculator._calculate_valid_dies_optimized:
\* [valid_dies, die_positions, enumerated, raised]
_calculate_valid_dies_optimized(g, pitch_x, pitch_y, die_size_x, die_size_y, method) ==
    LET has_notch == g.notch_type # NONE
        visited   == IF has_notch
                     THEN FullRangePositions(g.effective_radius, pitch_x, pitch_y)
                     ELSE FirstQuadrantPositions(g.effective_radius, pitch_x, pitch_y)
        Check(c)  == Opt_is_rectangle_in_wafer(g, c[1] * pitch_x, c[2] * pitch_y,
                                               die_size_x, die_size_y, method)
        Accepted(c) == Check(c)[1]
        accepted  == SelectSeq(visited, Accepted)
        Mirrored(c) ==
            LET sym == _get_symmetric_positions(c[1], c[2], c[1] * pitch_x, c[2] * pitch_y)
            IN  [n \in 1..Len(sym) |->
                    DiePosition(sym[n][2], sym[n][1], sym[n][3], sym[n][4], TRUE,
                                Check(c)[2], Distance(sym[n][3], sym[n][4]))]
    IN  IF has_notch
        THEN [valid_dies |-> Len(accepted),
              die_positions |->
                  [k \in 1..Len(accepted) |->
                      LET c == accepted[k]
                      IN  DiePosition(c[2], c[1], c[1] * pitch_x, c[2] * pitch_y, TRUE,
                                      Check(c)[2],
                                      Distance(c[1] * pitch_x, c[2] * pitch_y))],
              enumerated |-> Len(visited),
              raised |-> \E k \in 1..Len(visited) : Raised(Check(visited[k]))]
        ELSE [valid_dies |->
                  SumSeq([k \in 1..Len(accepted) |->
                             SymmetricCount(accepted[k][1], accepted[k][2])]),
              die_positions |->
                  Flatten([k \in 1..Len(accepted) |-> Mirrored(accepted[k])]),
              enumerated |-> Len(visited),
              raised |-> \E k \in 1..Len(visited) : Raised(Check(visited[k]))]

\* the violations the call collects before it computes anything
InputErrors(a) ==
    SelectSeq(
        << <<a.die_size_x_um <= 0, "die_size_x_um must be positive">>,
           <<a.die_size_y_um <= 0, "die_size_y_um must be positive">>,
           <<a.scribe_lane_x_um < 0, "scribe_lane_x_um must be non-negative">>,
           <<a.scribe_lane_y_um < 0, "scribe_lane_y_um must be non-negative">>,
           <<a.wafer_diameter_mm <= 0, "wafer_diameter_mm must be positive">>,
           <<a.edge_exclusion_mm < 0, "edge_exclusion_mm must be non-negative">>,
           <<~(0 <= a.yield_percentage /\ a.yield_percentage <= 100),
             "yield_percentage must be between 0 and 100">> >>,
        LAMBDA e : e[1])

\* OptimizedDieCalculator.calculate_dies_per_wafer
Opt_calculate_dies_per_wafer(a) ==
    LET errors       == InputErrors(a)
        die_size_x   == LenOfUm(a.die_size_x_um)
        die_size_y   == LenOfUm(a.die_size_y_um)
        die_pitch_x  == die_size_x + LenOfUm(a.scribe_lane_x_um)
        die_pitch_y  == die_size_y + LenOfUm(a.scribe_lane_y_um)
        wafer_geom   == OptimizedWaferGeometry(a.wafer_diameter_mm, a.edge_exclusion_mm,
                                               a.notch_type, a.notch_depth_mm)
        g            == wafer_geom.value
        r            == _calculate_valid_dies_optimized(g, die_pitch_x, die_pitch_y,
                            die_size_x, die_size_y, a.validation_method)
    IN  IF errors # << >>
        THEN Failed(Raise("ValueError", [k \in 1..Len(errors) |-> errors[k][2]]), 0)
        ELSE IF die_pitch_x <= 0 \/ die_pitch_y <= 0
             THEN Failed(Raise("ValueError", <<"die pitch must be positive">>), 0)
        ELSE IF ~wafer_geom.ok THEN Failed(wafer_geom, 0)
        ELSE IF r.raised
             THEN Failed(Raise("ValueError", <<"Unknown validation method">>),
                         r.enumerated)
        ELSE CalculationResult(
                 r.valid_dies,
                 YieldDies(r.valid_dies, a.yield_percentage),
                 WaferUtilization(r.valid_dies, die_size_x, die_size_y, g.effective_radius),
                 r.die_positions,
                 a.validation_method,
                 r.enumerated)

(***************************************************************************)
(* Inputs                                                                  *)
(***************************************************************************)
MaxWaferMm == 6
MaxDieMm == 2
MaxNotchDepthMm == 2
MaxYieldWaferMm == 12
MaxEdgeExclusionMm == 2
MaxThreadWaferMm == 3

Args(dx, dy, sx, sy, wd, ee, yp, vm, nt, nd) ==
    [die_size_x_um |-> dx, die_size_y_um |-> dy,
     scribe_lane_x_um |-> sx, scribe_lane_y_um |-> sy,
     wafer_diameter_mm |-> wd, edge_exclusion_mm |-> ee,
     yield_percentage |-> yp, validation_method |-> vm,
     notch_type |-> nt, notch_depth_mm |-> nd]

\* the input contract of calculate: die sizes > 0, scribe lanes >= 0, wafer
\* diameter > 0, 0 <= edge exclusion < wafer radius, 0 <= yield <= 100,
\* 0 <= notch depth < wafer radius
ValidInputs(a) ==
    /\ a.die_size_x_um > 0
    /\ a.die_size_y_um > 0
    /\ a.scribe_lane_x_um >= 0
    /\ a.scribe_lane_y_um >= 0
    /\ a.wafer_diameter_mm > 0
    /\ a.edge_exclusion_mm >= 0
    /\ 2 * a.edge_exclusion_mm < a.wafer_diameter_mm
    /\ 0 <= a.yield_percentage /\ a.yield_percentage <= 100
    /\ a.notch_depth_mm >= 0
    /\ 2 * a.notch_depth_mm < a.wafer_diameter_mm

DieSizesUm == {UmPerMm * k : k \in 1..MaxDieMm}
ScribeLanesUm == {0, UmPerMm}

\* valid geometries, every policy, every notch kind and depth, at one yield;
\* the two scribe lanes are equally wide
GeometryInputs ==
    {a \in {Args(dx, dy, s, s, wd, ee, 80, vm, nt, nd) :
                dx \in DieSizesUm, dy \in DieSizesUm,
                s \in ScribeLanesUm,
                wd \in 1..MaxWaferMm, ee \in {0, 1},
                vm \in ValidationMethod, nt \in NotchType,
                nd \in 1..MaxNotchDepthMm} :
        ValidInputs(a)}

\* every whole yield percentage, on a few wafers of 1 mm x 2 mm dies
YieldInputs ==
    {Args(UmPerMm, 2 * UmPerMm, 0, 0, wd, 0, yp, CENTER_BASED, nt, 2) :
        wd \in (MaxYieldWaferMm - 2)..MaxYieldWaferMm, yp \in 0..100,
        nt \in NotchType}

\* parameter bundles as a caller may hand them over, valid or not
AnyInputs ==
    {Args(dx, UmPerMm, sx, 0, wd, ee, yp, vm, nt, nd) :
        dx \in {-UmPerMm, 0, UmPerMm}, sx \in {-UmPerMm, 0},
        wd \in {-4, 0, 4}, ee \in {-1, 0, 2}, yp \in {-10, 80, 110},
        vm \in {CENTER_BASED, CORNER_BASED}, nt \in NotchType,
        nd \in {-1, 1, 2}}

(***************************************************************************)
(* The state machine: one parameter bundle, handed once to each engine.    *)
(* A call is a function of its arguments, so a repeated call would return  *)
(* the same outcome; each engine is called once per behaviour.             *)
(***************************************************************************)
\* the threads that share one DieCalculator
Threads == {1, 2}

\* a thread that has not called yet
Idle == [pc |-> "idle", k |-> 0, oldest_key |-> << >>, result |-> NoCall]

\* no compare_methods call, a fresh shared instance nobody calls, and no
\* instance that is called repeatedly
NothingShared ==
    /\ cmp = [e \in BOOLEAN |-> NoCall]
    /\ cache = << >>
    /\ thr = [t \in Threads |-> Idle]
    /\ calc = NoCall

Init ==
    /\ args \in GeometryInputs
    /\ std = NoCall
    /\ trad = NoCall
    /\ opt = NoCall
    /\ NothingShared

\* DieCalculator(enable_optimizations=True).calculate_dies_per_wafer(**args)
StdCalculate ==
    /\ std = NoCall
    /\ std' = calculate_dies_per_wafer(args, TRUE)
    /\ UNCHANGED <<args, trad, opt, cmp, cache, thr, calc>>

\* DieCalculator(enable_optimizations=False).calculate_dies_per_wafer(**args)
TradCalculate ==
    /\ trad = NoCall
    /\ trad' = calculate_dies_per_wafer(args, FALSE)
    /\ UNCHANGED <<args, std, opt, cmp, cache, thr, calc>>

\* OptimizedDieCalculator().calculate_dies_per_wafer(**args)
OptCalculate ==
    /\ opt = NoCall
    /\ NothingShared
    /\ opt' = Opt_calculate_dies_per_wafer(args)
    /\ UNCHANGED <<args, std, trad, cmp, cache, thr, calc>>

Next == StdCalculate \/ TradCalculate \/ OptCalculate

Spec == Init /\ [][Next]_vars

\* the same calls on the yield inputs
InitYield ==
    /\ args \in YieldInputs
    /\ std = NoCall
    /\ trad = NoCall
    /\ opt = NoCall
    /\ NothingShared

SpecYield == InitYield /\ [][Next]_vars

\* the same calls on unchecked inputs
InitInputs ==
    /\ args \in AnyInputs
    /\ std = NoCall
    /\ trad = NoCall
    /\ opt = NoCall
    /\ NothingShared

SpecInputs == InitInputs /\ [][Next]_vars

\* dies longer than the wafer diameter in both directions, every policy and
\* notch kind
LargeDieInputs ==
    {a \in {Args(UmPerMm * (wd + kx), UmPerMm * (wd + ky), s, s, wd, ee, 80,
                 vm, nt, nd) :
                kx \in 1..MaxDieMm, ky \in 1..MaxDieMm,
                s \in ScribeLanesUm,
                wd \in 3..MaxWaferMm, ee \in {0, 1},
                vm \in ValidationMethod, nt \in NotchType,
                nd \in 1..MaxNotchDepthMm} :
        ValidInputs(a)}

\* the same calls on the oversized dies
InitLargeDie ==
    /\ args \in LargeDieInputs
    /\ std = NoCall
    /\ trad = NoCall
    /\ opt = NoCall
    /\ NothingShared

SpecLargeDie == InitLargeDie /\ [][Next]_vars

\* the geometries again with a wider range of edge exclusions, square dies
EdgeInputs ==
    {a \in {Args(d, d, s, s, wd, ee, 80, vm, nt, nd) :
                d \in DieSizesUm, s \in ScribeLanesUm,
                wd \in 3..MaxWaferMm, ee \in 0..MaxEdgeExclusionMm,
                vm \in ValidationMethod, nt \in NotchType,
                nd \in 1..MaxNotchDepthMm} :
        ValidInputs(a)}

\* the same calls on the edge exclusion inputs
InitEdge ==
    /\ args \in EdgeInputs
    /\ std = NoCall
    /\ trad = NoCall
    /\ opt = NoCall
    /\ NothingShared

SpecEdge == InitEdge /\ [][Next]_vars

\* a member of another enumeration passed as validation_method or notch_type:
\* an object that has a value, equal to no member of the enumeration
UNKNOWN_METHOD == "other_method"
UNKNOWN_NOTCH == "other_notch"

\* square dies on small wafers, with a policy or a notch kind (or both) that
\* is no member of its enumeration
UnknownInputs ==
    {a \in {Args(d * UmPerMm, d * UmPerMm, 0, 0, wd, 0, 80, vm, nt, 1) :
                d \in 1..(MaxDieMm + 1), wd \in 3..MaxWaferMm,
                vm \in ValidationMethod \cup {UNKNOWN_METHOD},
                nt \in NotchType \cup {UNKNOWN_NOTCH}} :
        a.validation_method = UNKNOWN_METHOD \/ a.notch_type = UNKNOWN_NOTCH}

\* the same calls on the inputs with an unknown policy or notch kind
InitUnknown ==
    /\ args \in UnknownInputs
    /\ std = NoCall
    /\ trad = NoCall
    /\ opt = NoCall
    /\ NothingShared

SpecUnknown == InitUnknown /\ [][Next]_vars

(***************************************************************************)
(* OptimizedDieCalculator on dimensions that binary64 does not hold        *)
(* exactly: the symmetric branch (no notch) under the Center policy, every *)
(* operation rounded as the machine rounds it.                             *)
(***************************************************************************)
\* um / 1000.0
F64OfUm(um) == F64Div(F64OfNat(um), F64OfNat(UmPerMm))

\* math.pi
F64Pi == [m |-> <<11544, 10376, 2029, 201>>, e |-> -51]

\* -a of a positive float
F64Neg(a) == [m |-> a.m, e |-> a.e, neg |-> TRUE]

\* OptimizedWaferGeometry.effective_radius_mm, for an exclusion of whole
\* millimetres below the radius
F64_effective_radius(wafer_diameter_mm, edge_exclusion_mm) ==
    F64Sub(F64Halved(wafer_diameter_mm), F64OfNat(edge_exclusion_mm))

\* OptimizedWaferGeometry.is_point_in_wafer
F64_is_point_in_wafer(effective_radius, x, y) ==
    F64Cmp(F64Sqrt(F64Add(F64Mul(x, x), F64Mul(y, y))), effective_radius) <= 0

\* max_j_row of row i of the symmetric branch; -1 for a row that is skipped
F64_max_j_row(effective_radius, pitch_x, pitch_y, i) ==
    LET center_x  == F64Mul(F64OfNat(i), pitch_x)
        radius_sq == F64Mul(effective_radius, effective_radius)
        x_sq      == F64Mul(center_x, center_x)
    IN  IF F64Cmp(radius_sq, x_sq) < 0 THEN -1
        ELSE F64Trunc(F64Div(F64Sqrt(F64Sub(radius_sq, x_sq)), pitch_y))

\* the <<i, j>> the symmetric branch visits: range(max_i + 1), each row from
\* 0 to max_j_row
F64_FirstQuadrantPositions(effective_radius, pitch_x, pitch_y) ==
    LET max_i == F64Trunc(F64Div(effective_radius, pitch_x)) + 1
    IN  UNION {{<<i, j>> : j \in 0..F64_max_j_row(effective_radius, pitch_x, pitch_y, i)} :
                  i \in 0..max_i}

\* the positions that share the distance of <<i, j>>: row, column and centre
F64_Symmetric(c, x, y) ==
    IF c[1] = 0 /\ c[2] = 0 THEN << <<0, 0, x, y>> >>
    ELSE IF c[1] = 0 THEN << <<0, c[2], F64Zero, y>>, <<0, -c[2], F64Zero, F64Neg(y)>> >>
    ELSE IF c[2] = 0 THEN << <<c[1], 0, x, F64Zero>>, <<-c[1], 0, F64Neg(x), F64Zero>> >>
    ELSE << <<c[1], c[2], x, y>>, <<-c[1], c[2], F64Neg(x), y>>,
            <<-c[1], -c[2], F64Neg(x), F64Neg(y)>>, <<c[1], -c[2], x, F64Neg(y)>> >>

\* one DiePosition per symmetric position, all at the distance of <<i, j>>
F64_Entries(sym, distance) ==
    [n \in 1..Len(sym) |->
        DiePosition(sym[n][2], sym[n][1], sym[n][3], sym[n][4], TRUE, RatioOne, distance)]

\* the entries of the centre <<x, y>> of <<i, j>>
F64_MirroredAt(c, x, y) ==
    F64_Entries(F64_Symmetric(c, x, y), F64Sqrt(F64Add(F64Mul(x, x), F64Mul(y, y))))

\* the entries an accepted <<i, j>> adds to die_positions
F64_Mirrored(c, pitch_x, pitch_y) ==
    F64_MirroredAt(c, F64Mul(F64OfNat(c[1]), pitch_x), F64Mul(F64OfNat(c[2]), pitch_y))

\* (total_die_area_mm2 / total_wafer_area_mm2) * 100.0
F64_WaferUtilization(valid_dies, die_size_x, die_size_y, effective_radius) ==
    F64Mul(F64Div(F64Mul(F64Mul(F64OfNat(valid_dies), die_size_x), die_size_y),
                  F64Mul(F64Mul(F64Pi, effective_radius), effective_radius)),
           F64OfNat(100))

\* the conversions at the head of calculate_dies_per_wafer: die_size_x,
\* die_size_y, die_pitch_x, die_pitch_y and the effective radius
F64_Dimensions(a) ==
    [die_size_x  |-> F64OfUm(a.die_size_x_um),
     die_size_y  |-> F64OfUm(a.die_size_y_um),
     die_pitch_x |-> F64Add(F64OfUm(a.die_size_x_um), F64OfUm(a.scribe_lane_x_um)),
     die_pitch_y |-> F64Add(F64OfUm(a.die_size_y_um), F64OfUm(a.scribe_lane_y_um)),
     effective_radius |-> F64_effective_radius(a.wafer_diameter_mm, a.edge_exclusion_mm)]

\* the positions in the order the loops append them
F64_InOrder(accepted, max_i, max_j) ==
    SelectSeq(Grid(0, max_i + 1, 0, max_j + 1), LAMBDA c : c \in accepted)

\* the CalculationResult of valid_dies accepted dies
F64_Result(a, dims, visited, accepted, valid_dies) ==
    LET in_order == F64_InOrder(accepted,
                        F64Trunc(F64Div(dims.effective_radius, dims.die_pitch_x)) + 1,
                        F64Trunc(F64Div(dims.effective_radius, dims.die_pitch_y)) + 1)
    IN  CalculationResult(
            valid_dies,
            YieldDies(valid_dies, a.yield_percentage),
            F64_WaferUtilization(valid_dies, dims.die_size_x, dims.die_size_y,
                                 dims.effective_radius),
            Flatten([k \in 1..Len(in_order) |->
                        F64_Mirrored(in_order[k], dims.die_pitch_x, dims.die_pitch_y)]),
            a.validation_method,
            Cardinality(visited))

\* valid_dies: every accepted <<i, j>> counted with its symmetric positions
F64_Counted(a, dims, visited, accepted) ==
    F64_Result(a, dims, visited, accepted,
               SumSeq([w \in 1..4 |->
                   w * Cardinality({c \in accepted : SymmetricCount(c[1], c[2]) = w})]))

\* the lattice points the symmetric branch visits and those it accepts
F64_Visited(a, dims, visited) ==
    F64_Counted(a, dims, visited,
                {c \in visited :
                    F64_is_point_in_wafer(dims.effective_radius,
                                          F64Mul(F64OfNat(c[1]), dims.die_pitch_x),
                                          F64Mul(F64OfNat(c[2]), dims.die_pitch_y))})

\* the symmetric branch on the converted dimensions
F64_calculate_valid_dies_optimized(a, dims) ==
    F64_Visited(a, dims,
                F64_FirstQuadrantPositions(dims.effective_radius,
                                           dims.die_pitch_x, dims.die_pitch_y))

\* OptimizedDieCalculator.calculate_dies_per_wafer for validation_method
\* CENTER_BASED and notch_type NONE
F64_calculate_dies_per_wafer(a) ==
    LET errors      == InputErrors(a)
        wafer_geom  == OptimizedWaferGeometry(a.wafer_diameter_mm, a.edge_exclusion_mm,
                                              a.notch_type, a.notch_depth_mm)
    IN  IF errors # << >>
        THEN Failed(Raise("ValueError", [k \in 1..Len(errors) |-> errors[k][2]]), 0)
        ELSE IF ~wafer_geom.ok THEN Failed(wafer_geom, 0)
        ELSE F64_calculate_valid_dies_optimized(a, F64_Dimensions(a))

\* wafers of whole millimetres and dies of tenths of a millimetre
DecimalDieSizesUm == {400, 600, 800, 1200, 1600, 2000}
MaxDecimalWaferMm == 5

DecimalInputs ==
    {Args(dx, dy, 0, 0, wd, 0, 80, CENTER_BASED, NONE, 1) :
        dx \in DecimalDieSizesUm, dy \in DecimalDieSizesUm, wd \in 3..MaxDecimalWaferMm}

InitDecimal ==
    /\ args \in DecimalInputs
    /\ std = NoCall
    /\ trad = NoCall
    /\ opt = NoCall
    /\ NothingShared

OptCalculateDecimal ==
    /\ opt = NoCall
    /\ opt' = F64_calculate_dies_per_wafer(args)
    /\ UNCHANGED <<args, std, trad, cmp, cache, thr, calc>>

NextDecimal == OptCalculateDecimal

SpecDecimal == InitDecimal /\ [][NextDecimal]_vars

(***************************************************************************)
(* PerformanceCache, called from one thread.  distance_cache is held as    *)
(* its <<key, value>> items in insertion order.                             *)
(***************************************************************************)
\* PerformanceCache.__init__
PerformanceCache(max_distance) ==
    [distance_cache |-> << >>, max_distance_cache |-> max_distance,
     cache_hits |-> 0, cache_misses |-> 0]

\* the places of key in distance_cache
CachedAt(pc, key) == {n \in 1..Len(pc.distance_cache) : pc.distance_cache[n][1] = key}

\* a slip of get_cached_distance: a hit moves its entry behind the others,
\* which makes the eviction least-recently-used instead of first-in-first-out
get_cached_distance_lru(pc, key, distance) ==
    IF CachedAt(pc, key) # {}
    THEN LET n == CHOOSE n \in CachedAt(pc, key) : TRUE
             others == SelectSeq(pc.distance_cache, LAMBDA e : e[1] # key)
         IN  [cache |-> [pc EXCEPT !.cache_hits = @ + 1,
                                   !.distance_cache = Append(others, pc.distance_cache[n])],
              value |-> pc.distance_cache[n][2]]
    ELSE LET kept == IF Len(pc.distance_cache) >= pc.max_distance_cache
                     THEN Tail(pc.distance_cache)
                     ELSE pc.distance_cache
         IN  [cache |-> [pc EXCEPT !.distance_cache = Append(kept, <<key, distance>>),
                                   !.cache_misses = @ + 1],
              value |-> distance]

\* PerformanceCache.get_cached_distance(x, y) for max_distance_cache >= 1,
\* where key is (round(x, 6), round(y, 6)) and distance is
\* math.sqrt(x * x + y * y): the cache afterwards and the value returned
get_cached_distance(pc, key, distance) ==
    IF CachedAt(pc, key) # {}
    THEN [cache |-> [pc EXCEPT !.cache_hits = @ + 1],
          value |-> pc.distance_cache[CHOOSE n \in CachedAt(pc, key) : TRUE][2]]
    ELSE LET kept == IF Len(pc.distance_cache) >= pc.max_distance_cache
                     THEN Tail(pc.distance_cache)
                     ELSE pc.distance_cache
         IN  [cache |-> [pc EXCEPT !.distance_cache = Append(kept, <<key, distance>>),
                                   !.cache_misses = @ + 1],
              value |-> distance]

\* the get_cached_distance calls for points lo..hi of a loop, in order: the
\* values returned and the cache afterwards
RECURSIVE CachedDistances(_, _, _, _)
CachedDistances(pc, points, lo, hi) ==
    IF lo > hi THEN [values |-> << >>, cache |-> pc]
    ELSE IF lo = hi
    THEN LET r == get_cached_distance(pc, points[lo].key, points[lo].distance)
         IN  [values |-> <<r.value>>, cache |-> r.cache]
    ELSE LET mid   == (lo + hi) \div 2
             left  == CachedDistances(pc, points, lo, mid)
             right == CachedDistances(left.cache, points, mid + 1, hi)
         IN  [values |-> left.values \o right.values, cache |-> right.cache]

\* DieCalculator.__init__; the PerformanceCache holds max_distance entries
DieCalculator(enable_optimizations, max_distance) ==
    [enable_optimizations |-> enable_optimizations,
     performance_cache |-> IF enable_optimizations THEN PerformanceCache(max_distance)
                           ELSE NoCall,
     total_calculations |-> 0,
     result |-> NoCall]

(***************************************************************************)
(* DieCalculator called repeatedly on dimensions that binary64 does not    *)
(* hold exactly: a wafer without a notch under the Center policy.          *)
(***************************************************************************)
\* PerformanceCache(max_distance_cache=1000)
DefaultMaxDistanceCache == 1000

\* round(x, 6) of a float below 2^9, in millionths: the nearest, on a tie
\* the even one
F64Round6(a) ==
    LET t == BigMul(a.m, BigOfNat(1000000))
        q == BigShr(t, -a.e)
        up == /\ BigBit(t, -a.e - 1) = 1
              /\ (BigLowBits(t, -a.e - 1) \/ BigBit(q, 0) = 1)
    IN  IF a.m = << >> THEN 0
        ELSE IF a.e >= 0 THEN NatOfBig(BigShl(t, a.e))
        ELSE NatOfBig(q) + (IF up THEN 1 ELSE 0)

\* i * pitch as sign and magnitude
F64Signed(i, magnitude) == IF i < 0 THEN F64Neg(magnitude) ELSE magnitude

\* what the loops compute for lattice index <<i, j>>: the centre, its
\* math.sqrt(center_x * center_x + center_y * center_y) and its cache key
F64_PointAt(c, x, y) ==
    [col |-> c[1], row |-> c[2],
     center_x |-> F64Signed(c[1], x), center_y |-> F64Signed(c[2], y),
     distance |-> F64Sqrt(F64Add(F64Mul(x, x), F64Mul(y, y))),
     key |-> <<(IF c[1] < 0 THEN -1 ELSE 1) * F64Round6(x),
               (IF c[2] < 0 THEN -1 ELSE 1) * F64Round6(y)>>]

\* the point of lattice index <<i, j>>, from |i| * pitch_x and |j| * pitch_y
F64_Point(c, pitch_x, pitch_y) ==
    F64_PointAt(c, F64Mul(F64OfNat(Abs(c[1])), pitch_x), F64Mul(F64OfNat(Abs(c[2])), pitch_y))

\* range(-max_dies_x // 2, max_dies_x // 2 + 1) by the same range of
\* max_dies_y, in loop order
F64_CandidateGrid(max_dies_x, max_dies_y) ==
    Grid(FloorHalf(-max_dies_x), FloorHalf(max_dies_x) + 1,
         FloorHalf(-max_dies_y), FloorHalf(max_dies_y) + 1)

\* the points of the lattice indices of grid, in order
F64_PointsOnGrid(grid, pitch_x, pitch_y) ==
    [k \in 1..Len(grid) |-> F64_Point(grid[k], pitch_x, pitch_y)]

\* math.sqrt((die_pitch_x / 2) ** 2 + (die_pitch_y / 2) ** 2)
F64_HalfDiagonal(half_x, half_y) ==
    F64Sqrt(F64Add(F64Mul(half_x, half_x), F64Mul(half_y, half_y)))

\* the points no farther from the centre than max_possible_distance
F64_WithinReach(points, max_possible_distance) ==
    SelectSeq(points, LAMBDA p : F64Cmp(p.distance, max_possible_distance) <= 0)

\* SpatialOptimizer.get_optimized_candidate_positions, each candidate with
\* what the loops compute for it
F64_get_optimized_candidate_positions(wafer_radius, die_pitch_x, die_pitch_y) ==
    F64_WithinReach(
        F64_PointsOnGrid(
            F64_CandidateGrid(
                F64Trunc(F64Div(F64Mul(F64OfNat(2), wafer_radius), die_pitch_x)) + 2,
                F64Trunc(F64Div(F64Mul(F64OfNat(2), wafer_radius), die_pitch_y)) + 2),
            die_pitch_x, die_pitch_y),
        F64Add(wafer_radius,
               F64_HalfDiagonal(F64Div(die_pitch_x, F64OfNat(2)),
                                F64Div(die_pitch_y, F64OfNat(2)))))

\* the traditional enumeration of calculate_dies_per_wafer
F64_TraditionalCandidatePositions(effective_radius, die_pitch_x, die_pitch_y) ==
    F64_PointsOnGrid(
        F64_CandidateGrid(
            F64Trunc(F64Div(F64Mul(F64OfNat(2), effective_radius), die_pitch_x)) + 1,
            F64Trunc(F64Div(F64Mul(F64OfNat(2), effective_radius), die_pitch_y)) + 1),
        die_pitch_x, die_pitch_y)

\* the calculator after the call, with the CalculationResult it returned:
\* valid holds the indices of the candidates that are valid
F64_DieResult(c, a, dims, candidates, cached, valid) ==
    [enable_optimizations |-> c.enable_optimizations,
     performance_cache |-> IF c.enable_optimizations THEN cached.cache
                           ELSE c.performance_cache,
     total_calculations |-> c.total_calculations + 1,
     result |-> CalculationResult(
         Cardinality(valid),
         YieldDies(Cardinality(valid), a.yield_percentage),
         F64_WaferUtilization(Cardinality(valid), dims.die_size_x, dims.die_size_y,
                              dims.effective_radius),
         [k \in 1..Len(candidates) |->
             DiePosition(candidates[k].row, candidates[k].col,
                         candidates[k].center_x, candidates[k].center_y,
                         k \in valid, RatioOne,
                         IF c.enable_optimizations THEN cached.values[k]
                         ELSE candidates[k].distance)],
         a.validation_method,
         Len(candidates))]

\* the loop over the candidates: the distances the cache serves and the
\* indices of the candidates with distance <= effective_radius
F64_DieLoop(c, a, dims, candidates) ==
    F64_DieResult(c, a, dims, candidates,
                  CachedDistances(c.performance_cache, candidates, 1, Len(candidates)),
                  {k \in 1..Len(candidates) :
                      F64Cmp(candidates[k].distance, dims.effective_radius) <= 0})

\* the enumeration the calculator's setting selects
F64_DieCandidates(c, a, dims) ==
    F64_DieLoop(c, a, dims,
                IF c.enable_optimizations
                THEN F64_get_optimized_candidate_positions(
                         dims.effective_radius, dims.die_pitch_x, dims.die_pitch_y)
                ELSE F64_TraditionalCandidatePositions(
                         dims.effective_radius, dims.die_pitch_x, dims.die_pitch_y))

\* DieCalculator.calculate_dies_per_wafer on calculator c, for
\* validation_method CENTER_BASED, notch_type NONE and positive dimensions:
\* the calculator afterwards, with the CalculationResult it returned
F64_Die_calculate_dies_per_wafer(c, a) == F64_DieCandidates(c, a, F64_Dimensions(a))

\* dies whose pitches have common multiples
SharedDieSizesUm == {600, 1800, 2400}
SharedWaferMm == 4
MaxSharedCalls == 3

\* the square dies, and the oblong ones that are as long as the largest
SharedInputs ==
    {a \in {Args(dx, dy, 0, 0, SharedWaferMm, 0, 80, CENTER_BASED, NONE, 1) :
                dx \in SharedDieSizesUm, dy \in SharedDieSizesUm} :
        a.die_size_x_um = a.die_size_y_um \/ a.die_size_x_um = 2400}

\* a fresh DieCalculator, with and without optimizations
InitShared ==
    /\ args \in SharedInputs
    /\ std = NoCall
    /\ trad = NoCall
    /\ opt = NoCall
    /\ cmp = [e \in BOOLEAN |-> NoCall]
    /\ cache = << >>
    /\ thr = [t \in Threads |-> Idle]
    /\ calc \in {DieCalculator(e, DefaultMaxDistanceCache) : e \in BOOLEAN}

\* the next call on the calculator, with any of the dimensions
SharedCalculate ==
    /\ calc.total_calculations < MaxSharedCalls
    /\ \E a \in SharedInputs :
           /\ args' = a
           /\ calc' = F64_Die_calculate_dies_per_wafer(calc, a)
    /\ UNCHANGED <<std, trad, opt, cmp, cache, thr>>

NextShared == SharedCalculate

SpecShared == InitShared /\ [][NextShared]_vars

(***************************************************************************)
(* DieCalculator called repeatedly on parameter bundles a caller may hand  *)
(* over, valid or not: the calculator after each call.                     *)
(***************************************************************************)
\* the candidates of the loop as get_cached_distance sees them: the key
\* (round(center_x, 6), round(center_y, 6)) of a centre on the grid of the
\* model's unit is the centre itself
CandidatePoints(candidate_positions, die_pitch_x, die_pitch_y) ==
    [k \in 1..Len(candidate_positions) |->
        LET center_x == candidate_positions[k][1] * die_pitch_x
            center_y == candidate_positions[k][2] * die_pitch_y
        IN  [key |-> <<center_x, center_y>>,
             distance |-> Distance(center_x, center_y)]]

\* the candidates the loop has finished when it ends: all of them, or those
\* before the first one on which is_rectangle_in_wafer raises
CandidatesFinished(checks) ==
    IF \E k \in 1..Len(checks) : Raised(checks[k])
    THEN (CHOOSE k \in 1..Len(checks) :
              /\ Raised(checks[k])
              /\ \A n \in 1..(k - 1) : ~Raised(checks[n])) - 1
    ELSE Len(checks)

\* the calculator after a call with the given outcome, cached holding the
\* lookups of its loop
DieAfterCall(c, outcome, cached) ==
    IF outcome.status = "ok"
    THEN [enable_optimizations |-> c.enable_optimizations,
          performance_cache |-> IF c.enable_optimizations THEN cached.cache
                                ELSE c.performance_cache,
          total_calculations |-> c.total_calculations + 1,
          result |-> [outcome EXCEPT !.die_positions =
                         [k \in 1..Len(outcome.die_positions) |->
                             [outcome.die_positions[k] EXCEPT
                                 !.distance_from_center =
                                     IF c.enable_optimizations THEN cached.values[k]
                                     ELSE @]]]]
    ELSE IF /\ outcome.status = "error"
            /\ outcome.type = "ValueError"
            /\ outcome.messages = <<"Unknown validation method">>
            /\ c.enable_optimizations
    THEN [c EXCEPT !.performance_cache = cached.cache, !.result = outcome]
    ELSE [c EXCEPT !.result = outcome]

\* the cache after the lookups of the candidates the loop finished, with the
\* distances it served
LoopCache(c, a, g, die_pitch_x, die_pitch_y, candidate_positions) ==
    CachedDistances(c.performance_cache,
                    CandidatePoints(candidate_positions, die_pitch_x, die_pitch_y),
                    1,
                    CandidatesFinished(
                        CheckCandidates(g, candidate_positions, die_pitch_x, die_pitch_y,
                                        a.validation_method)))

\* the lookups of the loop over the enumeration the setting selects
LoopCacheOn(c, a, g, die_pitch_x, die_pitch_y) ==
    LoopCache(c, a, g, die_pitch_x, die_pitch_y,
              IF c.enable_optimizations
              THEN get_optimized_candidate_positions(g.effective_radius,
                                                     die_pitch_x, die_pitch_y)
              ELSE TraditionalCandidatePositions(g.effective_radius,
                                                 die_pitch_x, die_pitch_y))

\* calculate_dies_per_wafer(a) on the DieCalculator c: the calculator
\* afterwards, with the outcome of the call in result
Die_calculate_dies_per_wafer(c, a) ==
    DieAfterCall(c, calculate_dies_per_wafer(a, c.enable_optimizations),
                 LoopCacheOn(c, a,
                             WaferGeometry(a.wafer_diameter_mm, a.edge_exclusion_mm,
                                           a.notch_type, a.notch_depth_mm).value,
                             LenOfUm(a.die_size_x_um) + LenOfUm(a.scribe_lane_x_um),
                             LenOfUm(a.die_size_y_um) + LenOfUm(a.scribe_lane_y_um)))

\* the calls of a sequence: dies of 0, 1 and 3 mm on a 4 mm wafer, with a
\* valid and an invalid edge exclusion and notch depth, a known and an
\* unknown policy
MaxSequenceCalls == 2
MaxSequenceLookups == 30

SequenceInputs ==
    {Args(d * UmPerMm, d * UmPerMm, 0, 0, 4, ee, 80, vm, nt, nd) :
        d \in {0, 1, 3}, ee \in {0, 2},
        vm \in {CENTER_BASED, UNKNOWN_METHOD}, nt \in {NONE, FLAT},
        nd \in {-1, 1}}

\* a fresh DieCalculator, with and without optimizations
InitSequence ==
    /\ args \in SequenceInputs
    /\ std = NoCall
    /\ trad = NoCall
    /\ opt = NoCall
    /\ cmp = [e \in BOOLEAN |-> NoCall]
    /\ cache = << >>
    /\ thr = [t \in Threads |-> Idle]
    /\ calc \in {DieCalculator(e, DefaultMaxDistanceCache) : e \in BOOLEAN}

\* the lookups the cache of c has answered
Lookups(c) ==
    IF c.enable_optimizations
    THEN c.performance_cache.cache_hits + c.performance_cache.cache_misses
    ELSE 0

\* the next call on the calculator, with any of the parameter bundles
SequenceCalculate ==
    /\ calc.total_calculations < MaxSequenceCalls
    /\ Lookups(calc) < MaxSequenceLookups
    /\ \E a \in SequenceInputs :
           /\ args' = a
           /\ calc' = Die_calculate_dies_per_wafer(calc, a)
    /\ UNCHANGED <<std, trad, opt, cmp, cache, thr>>

NextSequence == SequenceCalculate

SpecSequence == InitSequence /\ [][NextSequence]_vars

(***************************************************************************)
(* DieCalculator.benchmark_calculation_methods, on a calculator that may   *)
(* have been called before.  The two elapsed times are readings of the     *)
(* wall clock; traditional_time is one or no tick of it.                   *)
(***************************************************************************)
\* PerformanceCache.get_cache_statistics()['hit_rate'], as a fraction
HitRate(pc) ==
    IF pc.cache_hits + pc.cache_misses > 0
    THEN [num |-> pc.cache_hits, den |-> pc.cache_hits + pc.cache_misses]
    ELSE [num |-> 0, den |-> 1]

\* the results dictionary without the clock readings
BenchmarkResults(result_traditional, result_optimized, pc) ==
    [status |-> "ok",
     accuracy_difference |-> Abs(result_traditional.total_dies
                                     - result_optimized.total_dies),
     cache_hit_rate |-> HitRate(pc)]

\* the optimized run of the benchmark: optimizations switched on and the
\* cache replaced by a new one
BenchmarkOptimizedRun(traditional, a) ==
    Die_calculate_dies_per_wafer(
        [traditional EXCEPT !.enable_optimizations = TRUE,
                            !.performance_cache =
                                PerformanceCache(DefaultMaxDistanceCache)], a)

\* the end of the benchmark: the speedup and the results dictionary
BenchmarkEnd(traditional, optimized, traditional_time) ==
    IF optimized.result.status # "ok" THEN optimized
    ELSE IF traditional_time = 0
    THEN [optimized EXCEPT !.result =
             Failed(Raise("ZeroDivisionError", <<"float division by zero">>), 0)]
    ELSE [optimized EXCEPT !.result =
             BenchmarkResults(traditional.result, optimized.result,
                              optimized.performance_cache)]

\* the benchmark after its traditional run left the calculator traditional
BenchmarkAfterTraditional(traditional, a, traditional_time) ==
    IF traditional.result.status # "ok" THEN traditional
    ELSE BenchmarkEnd(traditional, BenchmarkOptimizedRun(traditional, a), traditional_time)

\* the setting and the cache of c put back on the calculator a finished
\* benchmark left
PutBack(c, after) ==
    IF after.result.status = "ok"
    THEN [after EXCEPT !.enable_optimizations = c.enable_optimizations,
                       !.performance_cache = c.performance_cache]
    ELSE after

\* a slip of the benchmark: the setting and the cache the calculator had
\* before the call are put back at the end
BenchmarkRestoringSetting(c, a, traditional_time) ==
    PutBack(c, BenchmarkAfterTraditional(
                   Die_calculate_dies_per_wafer([c EXCEPT !.enable_optimizations = FALSE], a),
                   a, traditional_time))

\* benchmark_calculation_methods(test_params) on the DieCalculator c: the
\* calculator afterwards, with the results or the error raised in result
benchmark_calculation_methods(c, a, traditional_time) ==
    BenchmarkAfterTraditional(
        Die_calculate_dies_per_wafer([c EXCEPT !.enable_optimizations = FALSE], a),
        a, traditional_time)

MaxBenchmarkCalls == 2

\* dies of 1 and 3 mm on a 4 mm wafer, with a valid and an invalid edge
\* exclusion
BenchmarkInputs ==
    {Args(d * UmPerMm, d * UmPerMm, 0, 0, 4, ee, 80, vm, nt, 1) :
        d \in {1, 3}, ee \in {0, 2},
        vm \in {CENTER_BASED, CORNER_BASED}, nt \in {NONE, FLAT}}

\* a fresh DieCalculator, with and without optimizations
InitBenchmark ==
    /\ args \in BenchmarkInputs
    /\ std = NoCall
    /\ trad = NoCall
    /\ opt = NoCall
    /\ cmp = [e \in BOOLEAN |-> NoCall]
    /\ cache = << >>
    /\ thr = [t \in Threads |-> Idle]
    /\ calc \in {DieCalculator(e, DefaultMaxDistanceCache) : e \in BOOLEAN}

\* a calculation on the calculator
BenchmarkCalculate ==
    /\ calc.total_calculations < MaxBenchmarkCalls
    /\ \E a \in BenchmarkInputs :
           /\ args' = a
           /\ calc' = Die_calculate_dies_per_wafer(calc, a)
    /\ UNCHANGED <<std, trad, opt, cmp, cache, thr>>

\* a benchmark on the calculator
Benchmark ==
    /\ calc.total_calculations < MaxBenchmarkCalls
    /\ \E a \in BenchmarkInputs, traditional_time \in {0, 1} :
           /\ args' = a
           /\ calc' = benchmark_calculation_methods(calc, a, traditional_time)
    /\ UNCHANGED <<std, trad, opt, cmp, cache, thr>>

NextBenchmark == BenchmarkCalculate \/ Benchmark

SpecBenchmark == InitBenchmark /\ [][NextBenchmark]_vars

(***************************************************************************)
(* DieCalculator.compare_methods                                           *)
(***************************************************************************)
\* for method in ValidationMethod: the members in definition order
MethodOrder == <<CENTER_BASED, CORNER_BASED, AREA_BASED, STRICT>>

\* a handler that catches ValueError only
CatchesValueErrorOnly(type) == type = "ValueError"

\* except Exception as e: the classes of the errors the handler catches
CaughtByHandler(type) ==
    type \in {"ValueError", "ZeroDivisionError", "ArithmeticError", "TypeError",
              "KeyError", "RuntimeError"}

\* DieCalculator(enable_optimizations).compare_methods(**a): one run per
\* policy in order; a caught failure is logged and the loop goes on, an
\* uncaught one leaves the loop and the method
compare_methods(a, enable_optimizations) ==
    LET Run(k) == calculate_dies_per_wafer(
                      [a EXCEPT !.validation_method = MethodOrder[k]],
                      enable_optimizations)
        escaping == {k \in 1..Len(MethodOrder) :
                        Run(k).status = "error" /\ ~CaughtByHandler(Run(k).type)}
        first    == CHOOSE k \in escaping : \A l \in escaping : k <= l
        stored   == {k \in 1..Len(MethodOrder) : Run(k).status = "ok"}
    IN  IF escaping # {}
        THEN [status |-> "error", type |-> Run(first).type]
        ELSE [status |-> "ok",
              results |-> [m \in {MethodOrder[k] : k \in stored} |->
                              Run(CHOOSE k \in stored : MethodOrder[k] = m)]]

\* parameter bundles as a caller may hand them to compare_methods
CompareInputs ==
    {Args(dx, UmPerMm, sx, 0, wd, ee, 80, CENTER_BASED, nt, nd) :
        dx \in {-UmPerMm, 0, UmPerMm}, sx \in {-UmPerMm, 0},
        wd \in {-4, 0, 4}, ee \in {-1, 0, 2}, nt \in NotchType,
        nd \in {-1, 1, 2}}

InitCompare ==
    /\ args \in CompareInputs
    /\ std = NoCall
    /\ trad = NoCall
    /\ opt = NoCall
    /\ NothingShared

\* DieCalculator(enable_optimizations=e).compare_methods(**args)
CompareMethods ==
    \E e \in BOOLEAN :
        /\ cmp[e] = NoCall
        /\ cmp' = [cmp EXCEPT ![e] = compare_methods(args, e)]
        /\ UNCHANGED <<args, std, trad, opt, cache, thr, calc>>

NextCompare == CompareMethods

SpecCompare == InitCompare /\ [][NextCompare]_vars

(***************************************************************************)
(* Two threads calling calculate_dies_per_wafer on one DieCalculator with  *)
(* optimizations enabled.  The threads share PerformanceCache; a step of a *)
(* thread is one operation on the shared dictionary in                     *)
(* get_cached_distance, and the interpreter may switch threads between any *)
(* two of them.  The cached value of a key is a function of the key, so    *)
(* the dictionary is held as its keys in insertion order.                  *)
(***************************************************************************)
\* PerformanceCache(max_distance_cache=1000), scaled down
max_distance_cache == 2

\* candidate_positions of the call, and the cache key of candidate k:
\* key = (round(x, 6), round(y, 6)) of its centre
ThreadCandidates(a) ==
    get_optimized_candidate_positions(
        (LenOfMm(a.wafer_diameter_mm) \div 2) - LenOfMm(a.edge_exclusion_mm),
        LenOfUm(a.die_size_x_um) + LenOfUm(a.scribe_lane_x_um),
        LenOfUm(a.die_size_y_um) + LenOfUm(a.scribe_lane_y_um))

CacheKey(a, k) ==
    <<ThreadCandidates(a)[k][1] * (LenOfUm(a.die_size_x_um) + LenOfUm(a.scribe_lane_x_um)),
      ThreadCandidates(a)[k][2] * (LenOfUm(a.die_size_y_um) + LenOfUm(a.scribe_lane_y_um))>>

InCache(key) == \E n \in 1..Len(cache) : cache[n] = key

\* the loop of calculate_dies_per_wafer goes on to the next candidate, or the
\* call returns its result
Advance(t) ==
    IF thr[t].k < Len(ThreadCandidates(args))
    THEN [thr EXCEPT ![t].pc = "lookup", ![t].k = thr[t].k + 1]
    ELSE [thr EXCEPT ![t].pc = "done",
                     ![t].result = calculate_dies_per_wafer(args, TRUE)]

\* an exception leaves get_cached_distance and the call
Abort(t, type) ==
    [thr EXCEPT ![t].pc = "done",
                ![t].result = Failed(Raise(type, << >>), thr[t].k)]

\* the thread enters calculate_dies_per_wafer and reaches the loop
Call(t) ==
    /\ thr[t].pc = "idle"
    /\ thr' = IF Len(ThreadCandidates(args)) = 0
              THEN [thr EXCEPT ![t].pc = "done",
                               ![t].result = calculate_dies_per_wafer(args, TRUE)]
              ELSE [thr EXCEPT ![t].pc = "lookup", ![t].k = 1]
    /\ UNCHANGED <<args, std, trad, opt, cmp, cache, calc>>

\* if key in self.distance_cache:
Lookup(t) ==
    /\ thr[t].pc = "lookup"
    /\ thr' = [thr EXCEPT ![t].pc = IF InCache(CacheKey(args, thr[t].k))
                                    THEN "hit" ELSE "miss"]
    /\ UNCHANGED <<args, std, trad, opt, cmp, cache, calc>>

\* self.cache_hits += 1; return self.distance_cache[key]
ReturnCached(t) ==
    /\ thr[t].pc = "hit"
    /\ thr' = IF InCache(CacheKey(args, thr[t].k))
              THEN Advance(t)
              ELSE Abort(t, "KeyError")
    /\ UNCHANGED <<args, std, trad, opt, cmp, cache, calc>>

\* distance = math.sqrt(...); if len(self.distance_cache) >= self.max_distance_cache:
CheckSize(t) ==
    /\ thr[t].pc = "miss"
    /\ thr' = [thr EXCEPT ![t].pc = IF Len(cache) >= max_distance_cache
                                    THEN "pick" ELSE "insert"]
    /\ UNCHANGED <<args, std, trad, opt, cmp, cache, calc>>

\* oldest_key = next(iter(self.distance_cache))
PickOldest(t) ==
    /\ thr[t].pc = "pick"
    /\ thr' = IF cache = << >>
              THEN Abort(t, "StopIteration")
              ELSE [thr EXCEPT ![t].pc = "del", ![t].oldest_key = Head(cache)]
    /\ UNCHANGED <<args, std, trad, opt, cmp, cache, calc>>

\* del self.distance_cache[oldest_key]
DeleteOldest(t) ==
    /\ thr[t].pc = "del"
    /\ IF InCache(thr[t].oldest_key)
       THEN /\ cache' = SelectSeq(cache, LAMBDA key : key # thr[t].oldest_key)
            /\ thr' = [thr EXCEPT ![t].pc = "insert", ![t].oldest_key = << >>]
       ELSE /\ cache' = cache
            /\ thr' = Abort(t, "KeyError")
    /\ UNCHANGED <<args, std, trad, opt, cmp, calc>>

\* self.distance_cache[key] = distance; self.cache_misses += 1; return distance
Insert(t) ==
    /\ thr[t].pc = "insert"
    /\ cache' = IF InCache(CacheKey(args, thr[t].k))
                THEN cache
                ELSE Append(cache, CacheKey(args, thr[t].k))
    /\ thr' = Advance(t)
    /\ UNCHANGED <<args, std, trad, opt, cmp, calc>>

\* the largest square die on small wafers, every policy
ThreadInputs ==
    {Args(UmPerMm * MaxDieMm, UmPerMm * MaxDieMm, 0, 0, wd, 0, 80, vm, NONE, 1) :
        wd \in 3..MaxThreadWaferMm, vm \in ValidationMethod}

\* a fresh DieCalculator(enable_optimizations=True) and two idle threads
InitThreads ==
    /\ args \in ThreadInputs
    /\ std = NoCall
    /\ trad = NoCall
    /\ opt = NoCall
    /\ NothingShared

NextThreads ==
    \E t \in Threads :
        \/ Call(t)
        \/ Lookup(t)
        \/ ReturnCached(t)
        \/ CheckSize(t)
        \/ PickOldest(t)
        \/ DeleteOldest(t)
        \/ Insert(t)

SpecThreads == InitThreads /\ [][NextThreads]_vars

(***************************************************************************)
(* PerformanceCache.get_cached_distance called repeatedly by one caller,   *)
(* on caches of a few entries and points of the grid of the model's unit.  *)
(***************************************************************************)
MaxCacheRequests == 5
MaxCacheCoordinate == 1

\* the points asked for
CachePoints == (-MaxCacheCoordinate..MaxCacheCoordinate) \X (0..MaxCacheCoordinate)

\* PerformanceCache(max_distance_cache=n) for the small n, before a call
InitCache ==
    /\ args = << >>
    /\ std = NoCall
    /\ trad = NoCall
    /\ opt = NoCall
    /\ cmp = [e \in BOOLEAN |-> NoCall]
    /\ cache = << >>
    /\ thr = [t \in Threads |-> Idle]
    /\ calc \in {PerformanceCache(n) : n \in 1..max_distance_cache}

\* get_cached_distance(x, y)
GetCachedDistance ==
    /\ calc.cache_hits + calc.cache_misses < MaxCacheRequests
    /\ \E p \in CachePoints :
           /\ args' = p
           /\ calc' = get_cached_distance(calc, p, Distance(p[1], p[2])).cache
    /\ UNCHANGED <<std, trad, opt, cmp, cache, thr>>

NextCache == GetCachedDistance

SpecCache == InitCache /\ [][NextCache]_vars

(***************************************************************************)
(* Properties of the calls                                                 *)
(***************************************************************************)
\* the three outcomes held by a state
Outcomes == <<std, trad, opt>>

Succeeded(r) == r.status = "ok"

\* the indices of the entries of die_positions whose is_valid is True
ValidEntries(r) ==
    {k \in 1..Len(r.die_positions) : r.die_positions[k].is_valid}

\* the (row, col) pairs of the valid entries
ValidCells(r) ==
    {<<r.die_positions[k].row, r.die_positions[k].col>> : k \in ValidEntries(r)}

WithMethod(a, method) == [a EXCEPT !.validation_method = method]

WithoutNotch(a) == [a EXCEPT !.notch_type = NONE]

\* C1: after every successful call of DieCalculator (optimizations on or
\* off) and of OptimizedDieCalculator, with or without a notch, the number
\* of entries of die_positions with is_valid = True equals total_dies.
C1_ValidEntriesEqualTotal ==
    \A n \in 1..3 :
        Succeeded(Outcomes[n]) =>
            Cardinality(ValidEntries(Outcomes[n])) = Outcomes[n].total_dies

\* all three calls succeeded on a wafer without notch; the symmetric count of
\* the optimized engine exceeds its visited positions, and DieCalculator
\* stored rejected candidates next to accepted ones
C1_Witness ==
    /\ args.notch_type = NONE
    /\ Succeeded(std) /\ Succeeded(trad) /\ Succeeded(opt)
    /\ opt.total_dies > opt.enumerated
    /\ std.total_dies > 0
    /\ std.total_dies < Len(std.die_positions)

\* C2: for valid inputs, 0 <= yield_dies <= total_dies and yield_dies is
\* exactly floor(total_dies * yield_percentage / 100).
C2_YieldIsExactFloor ==
    \A n \in 1..3 :
        Succeeded(Outcomes[n]) =>
            /\ 0 <= Outcomes[n].yield_dies
            /\ Outcomes[n].yield_dies <= Outcomes[n].total_dies
            /\ Outcomes[n].yield_dies =
                   (Outcomes[n].total_dies * args.yield_percentage) \div 100

\* the accepted cells and totals of the three policies are nested
PoliciesNested(strict, corner, center) ==
    /\ ValidCells(strict) \subseteq ValidCells(corner)
    /\ ValidCells(corner) \subseteq ValidCells(center)
    /\ strict.total_dies <= corner.total_dies
    /\ corner.total_dies <= center.total_dies

\* C3: for every geometry (any notch kind), what Strict accepts Corner
\* accepts and what Corner accepts Center accepts, so that
\* Strict.total_dies <= Corner.total_dies <= Center.total_dies, in
\* DieCalculator and in OptimizedDieCalculator. Checked on the results of
\* the Strict calls against the Corner and Center calls on the same inputs.
C3_PolicyNesting ==
    args.validation_method = STRICT =>
        /\ Succeeded(std) =>
               PoliciesNested(std,
                   calculate_dies_per_wafer(WithMethod(args, CORNER_BASED), TRUE),
                   calculate_dies_per_wafer(WithMethod(args, CENTER_BASED), TRUE))
        /\ Succeeded(trad) =>
               PoliciesNested(trad,
                   calculate_dies_per_wafer(WithMethod(args, CORNER_BASED), FALSE),
                   calculate_dies_per_wafer(WithMethod(args, CENTER_BASED), FALSE))
        /\ Succeeded(opt) =>
               PoliciesNested(opt,
                   Opt_calculate_dies_per_wafer(WithMethod(args, CORNER_BASED)),
                   Opt_calculate_dies_per_wafer(WithMethod(args, CENTER_BASED)))

\* Strict calls of both engines on a notched wafer accepted some dies, and
\* the Center policy accepts strictly more
C3_Witness ==
    /\ args.validation_method = STRICT
    /\ args.notch_type # NONE
    /\ Succeeded(std) /\ Succeeded(opt)
    /\ std.total_dies > 0 /\ opt.total_dies > 0
    /\ std.total_dies <
           calculate_dies_per_wafer(WithMethod(args, CENTER_BASED), TRUE).total_dies
    /\ opt.total_dies <
           Opt_calculate_dies_per_wafer(WithMethod(args, CENTER_BASED)).total_dies

\* C4: with die size, scribe lanes, wafer diameter, edge exclusion and policy
\* fixed, total_dies with a V90 or Flat notch is never larger than total_dies
\* with notch type None, in DieCalculator and in OptimizedDieCalculator.
C4_NotchNeverAddsDies ==
    args.notch_type # NONE =>
        /\ Succeeded(std) =>
               std.total_dies <=
                   calculate_dies_per_wafer(WithoutNotch(args), TRUE).total_dies
        /\ Succeeded(trad) =>
               trad.total_dies <=
                   calculate_dies_per_wafer(WithoutNotch(args), FALSE).total_dies
        /\ Succeeded(opt) =>
               opt.total_dies <=
                   Opt_calculate_dies_per_wafer(WithoutNotch(args)).total_dies

\* both engines lost dies to a notch
C4_Witness ==
    /\ args.notch_type # NONE
    /\ Succeeded(std) /\ Succeeded(opt)
    /\ 0 < std.total_dies
    /\ std.total_dies <
           calculate_dies_per_wafer(WithoutNotch(args), TRUE).total_dies
    /\ 0 < opt.total_dies
    /\ opt.total_dies <
           Opt_calculate_dies_per_wafer(WithoutNotch(args)).total_dies

\* the reference count: every (i, j) of the full index range
\* [-max_i, max_i] x [-max_j, max_j] validated on its own with
\* OptimizedWaferGeometry.is_rectangle_in_wafer
FullIndexRangeCount(a) ==
    LET die_size_x  == LenOfUm(a.die_size_x_um)
        die_size_y  == LenOfUm(a.die_size_y_um)
        pitch_x     == die_size_x + LenOfUm(a.scribe_lane_x_um)
        pitch_y     == die_size_y + LenOfUm(a.scribe_lane_y_um)
        g           == OptimizedWaferGeometry(a.wafer_diameter_mm, a.edge_exclusion_mm,
                                              a.notch_type, a.notch_depth_mm).value
        max_i       == TruncDiv(g.effective_radius, pitch_x) + 1
        max_j       == TruncDiv(g.effective_radius, pitch_y) + 1
    IN  Cardinality({c \in (-max_i..max_i) \X (-max_j..max_j) :
            Opt_is_rectangle_in_wafer(g, c[1] * pitch_x, c[2] * pitch_y,
                                      die_size_x, die_size_y,
                                      a.validation_method)[1]})

C6_BruteForceEqualsSymmetric ==
    (args.notch_type = NONE /\ Succeeded(trad) /\ Succeeded(opt)) =>
        /\ trad.total_dies = opt.total_dies
        /\ trad.yield_dies = opt.yield_dies

\* C7: for valid inputs, every policy and every notch kind, DieCalculator
\* with and without optimizations returns the same total_dies and the same
\* set of valid (row, col) positions.
C7_OptimizationsKeepOutcome ==
    (Succeeded(std) /\ Succeeded(trad)) =>
        /\ std.total_dies = trad.total_dies
        /\ ValidCells(std) = ValidCells(trad)

\* both modes ran on a notched wafer, examined different numbers of
\* candidates and accepted some dies
C7_Witness ==
    /\ args.notch_type # NONE
    /\ Succeeded(std) /\ Succeeded(trad)
    /\ std.enumerated # trad.enumerated
    /\ std.total_dies > 0

\* C8: a call of either engine with at least one invalid input fails with an
\* error and enumerates no candidate.
C8_InvalidInputsFailEarly ==
    ~ValidInputs(args) =>
        \A n \in 1..3 :
            Outcomes[n].status # "none" =>
                /\ Outcomes[n].status = "error"
                /\ Outcomes[n].enumerated = 0

\* the message of every constraint the inputs violate
Violations(a) ==
    {e[2] : e \in {v \in
        { <<a.die_size_x_um <= 0, "die_size_x_um must be positive">>,
          <<a.die_size_y_um <= 0, "die_size_y_um must be positive">>,
          <<a.scribe_lane_x_um < 0, "scribe_lane_x_um must be non-negative">>,
          <<a.scribe_lane_y_um < 0, "scribe_lane_y_um must be non-negative">>,
          <<a.wafer_diameter_mm <= 0, "wafer_diameter_mm must be positive">>,
          <<a.edge_exclusion_mm < 0, "edge_exclusion_mm must be non-negative">>,
          <<2 * a.edge_exclusion_mm >= a.wafer_diameter_mm,
            "Effective radius must be positive">>,
          <<~(0 <= a.yield_percentage /\ a.yield_percentage <= 100),
            "yield_percentage must be between 0 and 100">>,
          <<a.notch_depth_mm < 0, "Notch depth must be non-negative">>,
          <<2 * a.notch_depth_mm >= a.wafer_diameter_mm,
            "Notch depth cannot exceed wafer radius">> } : v[1]}}

\* C9: when several inputs of one call are invalid at once, the single
\* error raised lists every violated constraint, not only the first.
C9_ErrorListsEveryViolation ==
    opt.status = "error" =>
        \A m \in Violations(args) :
            \E k \in 1..Len(opt.messages) : opt.messages[k] = m

\* C10: for valid inputs, every policy and every notch kind,
\* 0 <= wafer_utilization <= 100.
C10_UtilizationWithinHundred ==
    \A n \in 1..3 :
        Succeeded(Outcomes[n]) =>
            /\ 0 <= Outcomes[n].wafer_utilization.num
            /\ Outcomes[n].wafer_utilization.num
                   <= 100 * Outcomes[n].wafer_utilization.den

\* the die is longer than the wafer diameter in both directions
DieExceedsWafer(a) ==
    /\ LenOfUm(a.die_size_x_um) > LenOfMm(a.wafer_diameter_mm)
    /\ LenOfUm(a.die_size_y_um) > LenOfMm(a.wafer_diameter_mm)

\* C11: when the die is larger than the wafer, every engine returns without
\* error and with total_dies = 0, under every policy, Center included.
C11_OversizedDieCountsZero ==
    \A n \in 1..3 :
        (Outcomes[n].status # "none" /\ DieExceedsWafer(args)) =>
            /\ Succeeded(Outcomes[n])
            /\ Outcomes[n].total_dies = 0

\* the outcome of engine n (1: DieCalculator with optimizations, 2: without,
\* 3: OptimizedDieCalculator) on the parameters a
Engine(n, a) ==
    IF n = 1 THEN calculate_dies_per_wafer(a, TRUE)
    ELSE IF n = 2 THEN calculate_dies_per_wafer(a, FALSE)
    ELSE Opt_calculate_dies_per_wafer(a)

AllCalled == \A n \in 1..3 : Outcomes[n].status # "none"

WithEdgeExclusion(a, e) == [a EXCEPT !.edge_exclusion_mm = e]

\* C12: with die size, scribe lanes, wafer diameter, policy and notch held
\* fixed, a larger valid edge exclusion never gives a larger total_dies, in
\* each engine.
C12_EdgeExclusionNeverAddsDies ==
    AllCalled =>
        \A n \in 1..3 : \A e2 \in args.edge_exclusion_mm..MaxEdgeExclusionMm :
            (Succeeded(Outcomes[n]) /\ ValidInputs(WithEdgeExclusion(args, e2))) =>
                /\ Succeeded(Engine(n, WithEdgeExclusion(args, e2)))
                /\ Engine(n, WithEdgeExclusion(args, e2)).total_dies
                       <= Outcomes[n].total_dies

\* a notched wafer on which one more millimetre of edge exclusion costs every
\* engine some dies but not all of them
C12_Witness ==
    /\ AllCalled
    /\ args.notch_type # NONE
    /\ ValidInputs(WithEdgeExclusion(args, args.edge_exclusion_mm + 1))
    /\ \A n \in 1..3 :
           /\ Succeeded(Outcomes[n])
           /\ Engine(n, WithEdgeExclusion(args, args.edge_exclusion_mm + 1)).total_dies > 0
           /\ Engine(n, WithEdgeExclusion(args, args.edge_exclusion_mm + 1)).total_dies
                  < Outcomes[n].total_dies

WithDoubledDie(a) ==
    [a EXCEPT !.die_size_x_um = 2 * a.die_size_x_um,
              !.die_size_y_um = 2 * a.die_size_y_um]

\* C13: with scribe lanes, wafer diameter, edge exclusion, policy and notch
\* held fixed, doubling both die dimensions never gives a larger total_dies,
\* for every policy and every notch kind.
C13_DoubledDieNeverAddsDies ==
    \A n \in 1..3 :
        Succeeded(Outcomes[n]) =>
            Engine(n, WithDoubledDie(args)).total_dies <= Outcomes[n].total_dies

\* the effective radius of the wafer of a, in model units
EffectiveRadiusOf(a) ==
    (LenOfMm(a.wafer_diameter_mm) \div 2) - LenOfMm(a.edge_exclusion_mm)

\* the squared distance of a grid centre from the wafer centre is at most the
\* squared effective radius
OnOrInsideCircle(a, x, y) ==
    x * x + y * y <= EffectiveRadiusOf(a) * EffectiveRadiusOf(a)

\* the die pitches of a, in model units
PitchX(a) == LenOfUm(a.die_size_x_um) + LenOfUm(a.scribe_lane_x_um)
PitchY(a) == LenOfUm(a.die_size_y_um) + LenOfUm(a.scribe_lane_y_um)

\* the grid cells whose centre lies on or inside the effective circle
CellsOnOrInside(a) ==
    LET k == EffectiveRadiusOf(a)
    IN  {c \in (-k..k) \X (-k..k) :
            OnOrInsideCircle(a, c[2] * PitchX(a), c[1] * PitchY(a))}

GeometryOf(a) ==
    WaferGeometry(a.wafer_diameter_mm, a.edge_exclusion_mm,
                  a.notch_type, a.notch_depth_mm).value

OptGeometryOf(a) ==
    OptimizedWaferGeometry(a.wafer_diameter_mm, a.edge_exclusion_mm,
                           a.notch_type, a.notch_depth_mm).value

\* the notch test of DieCalculator on the pitch rectangle around (x, y), and
\* of OptimizedDieCalculator on the die rectangle around (x, y)
HitsNotch(a, x, y) ==
    _is_rectangle_intersecting_notch(GeometryOf(a), x, y, PitchX(a), PitchY(a))

OptHitsNotch(a, x, y) ==
    Opt_is_rectangle_intersecting_notch(OptGeometryOf(a), x, y,
                                        LenOfUm(a.die_size_x_um),
                                        LenOfUm(a.die_size_y_um))

\* C15: under every policy, a rectangle for which the notch test is true is
\* rejected with (is_valid, area_ratio) = (False, 0), whatever the policy
\* says about it, and is not counted in total_dies: DieCalculator stores it
\* as invalid with ratio 0, OptimizedDieCalculator does not store it, and
\* total_dies counts only entries that miss the notch.
C15_NotchRejectsOutright ==
    AllCalled =>
        /\ \A n \in 1..2 : \A k \in 1..Len(Outcomes[n].die_positions) :
               LET p == Outcomes[n].die_positions[k]
               IN  HitsNotch(args, p.center_x, p.center_y) =>
                       (~p.is_valid /\ p.area_ratio = RatioZero)
        /\ \A k \in 1..Len(opt.die_positions) :
               ~OptHitsNotch(args, opt.die_positions[k].center_x,
                             opt.die_positions[k].center_y)
        /\ \A n \in 1..2 :
               Outcomes[n].total_dies =
                   Cardinality({k \in ValidEntries(Outcomes[n]) :
                       ~HitsNotch(args, Outcomes[n].die_positions[k].center_x,
                                  Outcomes[n].die_positions[k].center_y)})
        /\ opt.total_dies = Len(opt.die_positions)

\* DieCalculator rejected, with ratio 0, a candidate in the notch that the
\* selected policy accepts on the wafer without notch, and the optimized
\* engine left out a cell that it keeps on the wafer without notch
C15_Witness ==
    /\ AllCalled
    /\ args.notch_type # NONE
    /\ \A n \in 1..2 : \E k \in 1..Len(Outcomes[n].die_positions) :
           LET p == Outcomes[n].die_positions[k]
           IN  /\ HitsNotch(args, p.center_x, p.center_y)
               /\ ~p.is_valid
               /\ p.area_ratio = RatioZero
               /\ is_rectangle_in_wafer(GeometryOf(WithoutNotch(args)),
                                        p.center_x, p.center_y,
                                        PitchX(args), PitchY(args),
                                        args.validation_method)[1]
    /\ \E c \in ValidCells(Opt_calculate_dies_per_wafer(WithoutNotch(args))) :
           /\ OptHitsNotch(args, c[2] * PitchX(args), c[1] * PitchY(args))
           /\ c \notin ValidCells(opt)

\* the rectangle of width w and height h around (x, y) reaches into the notch
\* depth band [r - d, r] and overlaps [-hw, +hw], with hw = d for the V notch
\* and hw^2 = 2 r d - d^2 for the flat
ReachesNotchBand(g, x, y, w, h) ==
    LET r    == g.wafer_radius
        d    == g.notch_depth
        hw2  == IF g.notch_type = V_NOTCH_90 THEN d * d ELSE 2 * r * d - d * d
        left  == x - (w \div 2)
        right == x + (w \div 2)
    IN  /\ y + (h \div 2) >= r - d
        /\ y - (h \div 2) <= r
        /\ (left <= 0 \/ left * left <= hw2)
        /\ (right >= 0 \/ right * right <= hw2)

\* C16: for the V notch and the flat with 0 < depth < wafer radius, the notch
\* test is true exactly for the rectangles whose vertical extent reaches into
\* the depth band and whose horizontal extent overlaps the notch's half-width
\* band; checked on every candidate rectangle of DieCalculator and on every
\* rectangle OptimizedDieCalculator visits.
C16_NotchTestIsBandOverlap ==
    (AllCalled /\ args.notch_type # NONE) =>
        /\ \A n \in 1..2 : \A k \in 1..Len(Outcomes[n].die_positions) :
               LET p == Outcomes[n].die_positions[k]
               IN  HitsNotch(args, p.center_x, p.center_y)
                       <=> ReachesNotchBand(GeometryOf(args), p.center_x, p.center_y,
                                            PitchX(args), PitchY(args))
        /\ \A c \in CellsOnOrInside(args) :
               OptHitsNotch(args, c[2] * PitchX(args), c[1] * PitchY(args))
                   <=> ReachesNotchBand(OptGeometryOf(args),
                                        c[2] * PitchX(args), c[1] * PitchY(args),
                                        LenOfUm(args.die_size_x_um),
                                        LenOfUm(args.die_size_y_um))

\* the unit cells [u, u+1] x [v, v+1] of the rectangle of width w and height
\* h around (x, y)
CellsOfRectangle(x, y, w, h) ==
    ((x - (w \div 2))..(x + (w \div 2) - 1)) \X ((y - (h \div 2))..(y + (h \div 2) - 1))

\* the unit cell at (u, v) lies inside the circle of radius r / has a part of
\* positive area inside it
CellInside(u, v, r) ==
    Max2(Abs(u), Abs(u + 1)) * Max2(Abs(u), Abs(u + 1))
        + Max2(Abs(v), Abs(v + 1)) * Max2(Abs(v), Abs(v + 1)) <= r * r

CellTouched(u, v, r) ==
    Min2(Abs(u), Abs(u + 1)) * Min2(Abs(u), Abs(u + 1))
        + Min2(Abs(v), Abs(v + 1)) * Min2(Abs(v), Abs(v + 1)) < r * r

\* the rectangle contains the whole circle of radius r
ContainsCircle(x, y, w, h, r) ==
    /\ x - (w \div 2) <= -r /\ x + (w \div 2) >= r
    /\ y - (h \div 2) <= -r /\ y + (h \div 2) >= r

\* a lower and an upper bound of the area of the rectangle inside the circle,
\* in 1 / AreaScale: cell counts, or 3 r^2 < pi r^2 < 22 r^2 / 7 when the
\* rectangle contains the circle (the upper bound is given times 7)
AreaAtLeast(x, y, w, h, r) ==
    IF ContainsCircle(x, y, w, h, r) THEN 3 * r * r * AreaScale
    ELSE Cardinality({c \in CellsOfRectangle(x, y, w, h) : CellInside(c[1], c[2], r)})
             * AreaScale

SevenTimesAreaAtMost(x, y, w, h, r) ==
    IF ContainsCircle(x, y, w, h, r) THEN 22 * r * r * AreaScale
    ELSE 7 * Cardinality({c \in CellsOfRectangle(x, y, w, h) : CellTouched(c[1], c[2], r)})
             * AreaScale

\* the covered area a returned fraction stands for, in 1 / AreaScale
CoveredArea(ratio, w, h) ==
    IF ratio.den = 1 THEN ratio.num * w * h * AreaScale ELSE ratio.num

\* the returned pair (is_valid, covered area) agrees with the area of the rectangle inside the circle:
\* the fraction lies between the bounds of the area ratio, a rectangle with
\* certainly more than half of its area inside is accepted, and an accepted
\* rectangle may have more than half of its area inside
AgreesWithArea(is_valid, covered, x, y, w, h, r) ==
    /\ AreaAtLeast(x, y, w, h, r) <= covered
    /\ 7 * covered <= SevenTimesAreaAtMost(x, y, w, h, r)
    /\ 2 * AreaAtLeast(x, y, w, h, r) > w * h * AreaScale => is_valid
    /\ is_valid => 2 * SevenTimesAreaAtMost(x, y, w, h, r) > 7 * w * h * AreaScale

\* C17 (DieCalculator): under the Area policy every candidate rectangle that
\* misses the notch is accepted exactly when more than half of its area lies
\* inside the effective circle, and its area_ratio is that area ratio, also
\* when its four corners are all outside the circle.
AreaPolicyOfDieCalculator ==
    \A n \in 1..2 : \A k \in 1..Len(Outcomes[n].die_positions) :
        LET p == Outcomes[n].die_positions[k]
        IN  ~HitsNotch(args, p.center_x, p.center_y) =>
                /\ p.is_valid <=> 2 * p.area_ratio.num > p.area_ratio.den
                /\ AgreesWithArea(p.is_valid,
                                  CoveredArea(p.area_ratio, PitchX(args), PitchY(args)),
                                  p.center_x, p.center_y,
                                  PitchX(args), PitchY(args), EffectiveRadiusOf(args))

\* C17 (OptimizedDieCalculator): every grid cell whose die rectangle misses
\* the notch and has certainly more than half of its area inside the circle
\* is among the stored positions, and every stored position's area_ratio lies
\* between the bounds of its area ratio.
AreaPolicyOfOptimized ==
    /\ \A c \in CellsOnOrInside(args) :
           LET x == c[2] * PitchX(args)
               y == c[1] * PitchY(args)
               w == LenOfUm(args.die_size_x_um)
               h == LenOfUm(args.die_size_y_um)
           IN  (~OptHitsNotch(args, x, y)
                    /\ 2 * AreaAtLeast(x, y, w, h, EffectiveRadiusOf(args))
                           > w * h * AreaScale)
                   => c \in ValidCells(opt)
    /\ \A k \in 1..Len(opt.die_positions) :
           LET p == opt.die_positions[k]
           IN  AgreesWithArea(TRUE,
                              (p.area_ratio.num * LenOfUm(args.die_size_x_um)
                                   * LenOfUm(args.die_size_y_um) * AreaScale)
                                  \div p.area_ratio.den,
                              p.center_x, p.center_y,
                              LenOfUm(args.die_size_x_um), LenOfUm(args.die_size_y_um),
                              EffectiveRadiusOf(args))

\* C17: under the Area policy a rectangle that misses the notch is accepted
\* if and only if more than half of its area lies inside the effective
\* circle, and the returned fraction is that area ratio, in both engines.
C17_AreaPolicyIsAreaRatio ==
    (AllCalled /\ args.validation_method = AREA_BASED) =>
        (AreaPolicyOfDieCalculator /\ AreaPolicyOfOptimized)

\* C18: compare_methods never raises, whatever the inputs; the dictionary it
\* returns holds exactly the policies whose run succeeds, each with the
\* result of that run, whose calculation_method is the key.
C18_CompareMethodsNeverRaises ==
    \A e \in BOOLEAN :
        cmp[e].status # "none" =>
            /\ cmp[e].status = "ok"
            /\ DOMAIN cmp[e].results =
                   {m \in ValidationMethod :
                       Succeeded(calculate_dies_per_wafer(WithMethod(args, m), e))}
            /\ \A m \in DOMAIN cmp[e].results :
                   /\ cmp[e].results[m].calculation_method = m
                   /\ cmp[e].results[m] = calculate_dies_per_wafer(WithMethod(args, m), e)

\* compare_methods returned an empty dictionary for a die pitch of zero on a
\* valid wafer, where every run fails with ZeroDivisionError
C18_Witness ==
    /\ ValidInputs([args EXCEPT !.die_size_x_um = UmPerMm, !.scribe_lane_x_um = 0])
    /\ args.die_size_x_um + args.scribe_lane_x_um = 0
    /\ \A e \in BOOLEAN :
           /\ cmp[e].status = "ok"
           /\ DOMAIN cmp[e].results = {}
           /\ calculate_dies_per_wafer(args, e).status = "error"
           /\ calculate_dies_per_wafer(args, e).type = "ZeroDivisionError"

\* C19: two calculate_dies_per_wafer calls running concurrently on one
\* DieCalculator with optimizations enabled both return without error,
\* whatever the interleaving of their cache lookups, insertions and
\* evictions, each with the total_dies, yield_dies and die_positions of the
\* call run alone.
C19_ConcurrentCallsSucceed ==
    \A t \in Threads :
        thr[t].pc = "done" =>
            /\ Succeeded(thr[t].result)
            /\ thr[t].result.total_dies = calculate_dies_per_wafer(args, TRUE).total_dies
            /\ thr[t].result.yield_dies = calculate_dies_per_wafer(args, TRUE).yield_dies
            /\ thr[t].result.die_positions
                   = calculate_dies_per_wafer(args, TRUE).die_positions

\* C20: after every successful call without notch, of DieCalculator and of
\* OptimizedDieCalculator, the number of entries of die_positions equals
\* total_dies.
C20_PositionsEqualTotal ==
    \A n \in 1..3 :
        (Succeeded(Outcomes[n]) /\ args.notch_type = NONE) =>
            Len(Outcomes[n].die_positions) = Outcomes[n].total_dies

\* the number of candidates an engine enumerated, validated and rejected:
\* the quadrant path of OptimizedDieCalculator visits the first quadrant
\* only, and each position it accepts stands for 1, 2 or 4 counted dies
RejectedCandidates(n) ==
    IF n = 3 /\ args.notch_type = NONE
    THEN opt.enumerated
             - Cardinality({c \in ValidCells(opt) : c[1] >= 0 /\ c[2] >= 0})
    ELSE Outcomes[n].enumerated - Outcomes[n].total_dies

\* C21: die_positions holds one entry for every candidate that was
\* enumerated and validated, the rejected ones (is_valid False) as well as
\* the accepted ones, in both engines and every enumeration path.
C21_RejectedCandidatesAreStored ==
    \A n \in 1..3 :
        Succeeded(Outcomes[n]) =>
            Cardinality({k \in 1..Len(Outcomes[n].die_positions) :
                            ~Outcomes[n].die_positions[k].is_valid})
                = RejectedCandidates(n)

\* C22: a calculation whose validation policy is none of Center, Corner, Area
\* and Strict, or whose notch kind is none of None, V90 and Flat, fails with
\* an invalid-argument error (ValueError) on every geometry and never returns
\* a result.
C22_UnknownPolicyOrNotchFails ==
    \A n \in 1..3 :
        (Outcomes[n] # NoCall
            /\ (args.validation_method \notin ValidationMethod
                    \/ args.notch_type \notin NotchType)) =>
            (~Succeeded(Outcomes[n]) /\ Outcomes[n].type = "ValueError")

\* the part of C22 about the policy alone
C22_UnknownPolicyFails ==
    \A n \in 1..3 :
        (Outcomes[n] # NoCall /\ args.validation_method \notin ValidationMethod) =>
            (~Succeeded(Outcomes[n]) /\ Outcomes[n].type = "ValueError")

\* the geometry an engine constructs from the parameters of the state
ConstructedGeometry(n) ==
    IF n = 3
    THEN OptimizedWaferGeometry(args.wafer_diameter_mm, args.edge_exclusion_mm,
                                args.notch_type, args.notch_depth_mm)
    ELSE WaferGeometry(args.wafer_diameter_mm, args.edge_exclusion_mm,
                       args.notch_type, args.notch_depth_mm)

\* a construction that failed with the ValueError of the given message
FailsWith(g, message) ==
    ~g.ok /\ g.type = "ValueError" /\ g.messages = <<message>>

\* C23: constructing the wafer geometry, in WaferGeometry and in
\* OptimizedWaferGeometry and for every notch kind, fails with 'Effective
\* radius must be positive' when edge exclusion >= wafer radius, with 'Notch
\* depth must be non-negative' when notch depth < 0, with 'Notch depth cannot
\* exceed wafer radius' when notch depth >= wafer radius, and succeeds with
\* effective_radius = diameter/2 - edge_exclusion > 0 otherwise.
C23_GeometryConstructionFailsFast ==
    \A n \in 1..3 :
        Outcomes[n] # NoCall =>
            LET g == ConstructedGeometry(n)
                \* lengths in half millimetres: the radius in half millimetres
                \* is the diameter in millimetres
                radius == args.wafer_diameter_mm
                exclusion == 2 * args.edge_exclusion_mm
                depth == 2 * args.notch_depth_mm
            IN  IF exclusion >= radius
                THEN FailsWith(g, "Effective radius must be positive")
                ELSE IF depth < 0
                THEN FailsWith(g, "Notch depth must be non-negative")
                ELSE IF depth >= radius
                THEN FailsWith(g, "Notch depth cannot exceed wafer radius")
                ELSE g.ok /\ g.value.effective_radius = radius - exclusion
                          /\ g.value.effective_radius > 0

\* how far beyond int(R / pitch) the lattice is examined on each side
LatticeMargin == 2

\* a window of the unbounded lattice that reaches LatticeMargin indices
\* beyond the last index whose centre can lie inside the circle
LatticeWindow(a) ==
    LET max_i == (EffectiveRadiusOf(a) \div PitchX(a)) + LatticeMargin
        max_j == (EffectiveRadiusOf(a) \div PitchY(a)) + LatticeMargin
    IN  (-max_i..max_i) \X (-max_j..max_j)

\* the positions (i, j) of the window that the policy of engine n accepts
AcceptedOfLattice(n, a) ==
    {c \in LatticeWindow(a) :
        IF n = 3
        THEN Opt_is_rectangle_in_wafer(OptGeometryOf(a),
                 c[1] * PitchX(a), c[2] * PitchY(a),
                 LenOfUm(a.die_size_x_um), LenOfUm(a.die_size_y_um),
                 a.validation_method)[1]
        ELSE is_rectangle_in_wafer(GeometryOf(a),
                 c[1] * PitchX(a), c[2] * PitchY(a),
                 PitchX(a), PitchY(a), a.validation_method)[1]}

\* C24: in every enumeration path, every lattice index (i, j) whose rectangle
\* centred at (i * pitch_x, j * pitch_y) the selected policy accepts is among
\* the enumerated candidates, directly or as a mirrored counterpart:
\* total_dies equals the number of accepted positions of the whole lattice.
C24_GridCoversAcceptedPositions ==
    \A n \in 1..3 :
        Succeeded(Outcomes[n]) =>
            Outcomes[n].total_dies = Cardinality(AcceptedOfLattice(n, args))

\* the lattice positions of the first quadrant, beyond int(R / pitch) by
\* LatticeMargin, that is_point_in_wafer accepts in binary64
F64_AcceptedOfQuadrant(a) ==
    LET R  == F64_effective_radius(a.wafer_diameter_mm, a.edge_exclusion_mm)
        px == F64Add(F64OfUm(a.die_size_x_um), F64OfUm(a.scribe_lane_x_um))
        py == F64Add(F64OfUm(a.die_size_y_um), F64OfUm(a.scribe_lane_y_um))
    IN  {c \in (0..(F64Trunc(F64Div(R, px)) + LatticeMargin))
                \X (0..(F64Trunc(F64Div(R, py)) + LatticeMargin)) :
            F64_is_point_in_wafer(R, F64Mul(F64OfNat(c[1]), px), F64Mul(F64OfNat(c[2]), py))}

\* C24 on decimal dimensions: total_dies of OptimizedDieCalculator equals the
\* number of lattice positions that the Center policy accepts, each
\* first-quadrant position counted with its mirror images.
C24_DecimalGridCoversAcceptedPositions ==
    Succeeded(opt) =>
        opt.total_dies = SumSeq([w \in 1..4 |->
            w * Cardinality({c \in F64_AcceptedOfQuadrant(args) :
                                SymmetricCount(c[1], c[2]) = w})])

\* math.sqrt(center_x * center_x + center_y * center_y) of a DiePosition
\* with binary64 coordinates
F64_DistanceOf(p) ==
    F64Sqrt(F64Add(F64Mul([m |-> p.center_x.m, e |-> p.center_x.e],
                          [m |-> p.center_x.m, e |-> p.center_x.e]),
                   F64Mul([m |-> p.center_y.m, e |-> p.center_y.e],
                          [m |-> p.center_y.m, e |-> p.center_y.e])))

\* C25: every DiePosition of the result of every call on a DieCalculator,
\* also after earlier calls with other pitches, has distance_from_center equal
\* to the Euclidean distance of its own centre.
C25_DistanceIsOfOwnCentre ==
    Succeeded(calc.result) =>
        \A k \in 1..Len(calc.result.die_positions) :
            calc.result.die_positions[k].distance_from_center
                = F64_DistanceOf(calc.result.die_positions[k])

\* all four corners and all four edge midpoints of the rectangle are on or
\* inside the effective circle of a
EightPointsInside(a, x, y, width, height) ==
    \A sx \in {-1, 0, 1} : \A sy \in {-1, 0, 1} :
        (sx # 0 \/ sy # 0) =>
            OnOrInsideCircle(a, x + sx * Half(width), y + sy * Half(height))

\* the rectangles the engines hand to the policy: the pitch rectangle and the
\* die rectangle, centred on any point up to LatticeMargin units beyond the
\* effective circle
StrictRectangles(a) ==
    LET k == EffectiveRadiusOf(a) + LatticeMargin
    IN  {<<x, y, size[1], size[2]>> :
            x \in -k..k, y \in -k..k,
            size \in {<<PitchX(a), PitchY(a)>>,
                      <<LenOfUm(a.die_size_x_um), LenOfUm(a.die_size_y_um)>>}}

\* C26: under the Strict policy a rectangle that misses the notch is accepted
\* exactly when its four corners and four edge midpoints are within the
\* effective radius, in both engines, and the four-corner test of
\* OptimizedWaferGeometry accepts exactly the rectangles that the eight-point
\* test of WaferGeometry accepts.
C26_StrictIsEightPointsInBothEngines ==
    args.validation_method = STRICT =>
        \A r \in StrictRectangles(args) :
            LET g     == GeometryOf(args)
                og    == OptGeometryOf(args)
                eight == EightPointsInside(args, r[1], r[2], r[3], r[4])
            IN  /\ _validate_strict(g, r[1], r[2], r[3], r[4]) = eight
                /\ Opt_validate_strict(og, r[1], r[2], r[3], r[4])
                       = _validate_strict(g, r[1], r[2], r[3], r[4])
                /\ ~_is_rectangle_intersecting_notch(g, r[1], r[2], r[3], r[4]) =>
                       is_rectangle_in_wafer(g, r[1], r[2], r[3], r[4], STRICT)
                           = <<eight, RatioOne>>
                /\ ~Opt_is_rectangle_intersecting_notch(og, r[1], r[2], r[3], r[4]) =>
                       Opt_is_rectangle_in_wafer(og, r[1], r[2], r[3], r[4], STRICT)
                           = <<eight, RatioOne>>

\* a Strict calculation on a notched wafer that found dies, with a rectangle
\* whose edge midpoints are inside while a corner is outside
C26_Witness ==
    /\ args.validation_method = STRICT
    /\ args.notch_type # NONE
    /\ AllCalled
    /\ \A n \in 1..3 : Succeeded(Outcomes[n]) /\ Outcomes[n].total_dies > 0
    /\ \E r \in StrictRectangles(args) :
           /\ StrictMidpointsOnly(GeometryOf(args), r[1], r[2], r[3], r[4])
           /\ ~Opt_validate_strict(OptGeometryOf(args), r[1], r[2], r[3], r[4])

\* the edge exclusion of a is wider than its notch is deep, under a policy
\* that wants every corner inside the effective circle
NotchInsideEdgeExclusion(a) ==
    /\ a.notch_type # NONE
    /\ a.validation_method \in {CORNER_BASED, STRICT}
    /\ a.edge_exclusion_mm > a.notch_depth_mm

\* C27: whenever edge_exclusion_mm > notch_depth_mm, under the Corner and
\* Strict policies the notch test is never true for a rectangle the policy
\* accepts, and every engine returns the total_dies and the valid positions
\* it returns for the same parameters with notch type None.
C27_NotchInsideEdgeExclusionHasNoEffect ==
    NotchInsideEdgeExclusion(args) =>
        /\ \A r \in StrictRectangles(args) :
               /\ is_rectangle_in_wafer(GeometryOf(WithoutNotch(args)),
                                        r[1], r[2], r[3], r[4],
                                        args.validation_method)[1] =>
                      ~_is_rectangle_intersecting_notch(GeometryOf(args),
                                                        r[1], r[2], r[3], r[4])
               /\ Opt_is_rectangle_in_wafer(OptGeometryOf(WithoutNotch(args)),
                                            r[1], r[2], r[3], r[4],
                                            args.validation_method)[1] =>
                      ~Opt_is_rectangle_intersecting_notch(OptGeometryOf(args),
                                                           r[1], r[2], r[3], r[4])
        /\ \A n \in 1..3 :
               Succeeded(Outcomes[n]) =>
                   /\ Succeeded(Engine(n, WithoutNotch(args)))
                   /\ Outcomes[n].total_dies
                          = Engine(n, WithoutNotch(args)).total_dies
                   /\ ValidCells(Outcomes[n])
                          = ValidCells(Engine(n, WithoutNotch(args)))

\* every engine found dies on a notched wafer whose edge exclusion is wider
\* than the notch is deep, and the notch test is true for some rectangle
\* that reaches beyond the effective circle
C27_Witness ==
    /\ NotchInsideEdgeExclusion(args)
    /\ AllCalled
    /\ \A n \in 1..3 : Succeeded(Outcomes[n]) /\ Outcomes[n].total_dies > 0
    /\ \E r \in StrictRectangles(args) :
           /\ _is_rectangle_intersecting_notch(GeometryOf(args),
                                               r[1], r[2], r[3], r[4])
           /\ Opt_is_rectangle_intersecting_notch(OptGeometryOf(args),
                                                  r[1], r[2], r[3], r[4])

\* what a call may change of a DieCalculator: everything but the outcome
StateOf(c) ==
    [enable_optimizations |-> c.enable_optimizations,
     performance_cache |-> c.performance_cache,
     total_calculations |-> c.total_calculations]

\* C28: a calculate_dies_per_wafer call that fails with a ValueError leaves
\* total_calculations and the contents and hit/miss counters of
\* performance_cache as they were, and a call that returns a result adds
\* exactly 1 to total_calculations.
C28_FailedCallLeavesStateUnchanged ==
    [][/\ (calc'.result.status = "error" /\ calc'.result.type = "ValueError") =>
              StateOf(calc') = StateOf(calc)
       /\ Succeeded(calc'.result) =>
              calc'.total_calculations = calc.total_calculations + 1]_vars

\* the part of C28 on the failures WaferGeometry raises before the loop
C28_FailedConstructionLeavesStateUnchanged ==
    [][/\ (calc'.result.status = "error"
              /\ calc'.result.messages # <<"Unknown validation method">>) =>
              StateOf(calc') = StateOf(calc)
       /\ Succeeded(calc'.result) =>
              calc'.total_calculations = calc.total_calculations + 1]_vars

\* the last call on the calculator was a benchmark, and it returned
BenchmarkReturned ==
    /\ calc.result.status = "ok"
    /\ "accuracy_difference" \in DOMAIN calc.result

\* C29: after benchmark_calculation_methods returns, enable_optimizations is
\* True and performance_cache is a new cache that holds the entries and the
\* counters of the optimized run alone, whatever setting the calculator was
\* constructed with and whatever it had cached before.
C29_BenchmarkLeavesOptimizationsOn ==
    BenchmarkReturned =>
        /\ calc.enable_optimizations
        /\ calc.performance_cache =
               Die_calculate_dies_per_wafer(
                   DieCalculator(TRUE, DefaultMaxDistanceCache), args).performance_cache

\* a benchmark that returned on a calculator that had made a call before,
\* with the distances of the optimized run in the cache
C29_Witness ==
    /\ BenchmarkReturned
    /\ calc.total_calculations = 3
    /\ Len(calc.performance_cache.distance_cache) > 0

\* the keys of a distance cache, in insertion order
KeysOf(distance_cache) ==
    [n \in 1..Len(distance_cache) |-> distance_cache[n][1]]

====
